---------------------------- MODULE Spec2Model ----------------------------
(***************************************************************************)
(* A model of scripts/demo/lib/cue-edit.py.                                *)
(*                                                                         *)
(* A document is a sequence of lexemes.  Every punctuation or whitespace   *)
(* character of the source text is one lexeme (":", "{", a newline, a      *)
(* tab, ...); a run of word characters ([A-Za-z0-9_]) is one lexeme        *)
(* ("appConfig", "dev", "v1").  Offsets are 0-based offsets into that      *)
(* sequence, as Python's are into the string.  The regular expressions of  *)
(* the source are translated pattern by pattern into matchers over         *)
(* lexemes: a matcher takes a text and an offset and returns the offset    *)
(* after the match, or -1.  The keys, fields and values of the documents   *)
(* and of the command lines are whole lexemes: a key that is the tail of   *)
(* a longer word of the text is not among the inputs.                      *)
(*                                                                         *)
(* The module holds two specifications over the same variables.  Spec is   *)
(* one invocation of main: the existence checks, the edit, the backup,     *)
(* the write, the run of the validator, and the restore or the commit,     *)
(* with I/O errors, interrupts and kills between the steps.  SpecEdit is   *)
(* an editing session: the add and the remove of one command family        *)
(* applied in turn to one document, as the edit functions compute them.    *)
(***************************************************************************)
EXTENDS Integers, Sequences, FiniteSets, TLC

NL == "\n"
TAB == "\t"
SP == " "
QT == "\""
BS == "\\"
LB == "{"
RB == "}"

\* the lexemes that are not word characters
Punct == {NL, TAB, SP, QT, BS, LB, RB, ":", ",", "&", ".", "-", "/", "#", "|", "(", ")", "[", "]", "*", "!", "=", "//"}

\* \s
IsSpace(c) == c \in {NL, TAB, SP}
\* \w
IsWord(c) == c \notin Punct

Min(S) == CHOOSE x \in S : \A y \in S : x <= y
Max(S) == CHOOSE x \in S : \A y \in S : x >= y

\* content[i], 0-based
At(s, i) == s[i + 1]

\* F applied to v: the local name of F stands for the value v
With(v, F(_)) == F(v)

\* Python's s[a:b]: a negative offset counts from the end, both are clamped
Slice(s, a, b) ==
    With(Len(s), LAMBDA n :
    With(IF b < 0 THEN Max({0, n + b}) ELSE Min({b, n}), LAMBDA bb :
    With(IF a < 0 THEN Max({0, n + a}) ELSE Min({a, n}), LAMBDA aa :
    IF aa >= bb THEN << >> ELSE SubSeq(s, aa + 1, bb))))

\* s[a:]
From(s, a) == Slice(s, a, Len(s))

\* the literal lit at offset i
MatchLit(s, i, lit) ==
    IF i >= 0 /\ i + Len(lit) <= Len(s) /\ SubSeq(s, i + 1, i + Len(lit)) = lit
    THEN i + Len(lit) ELSE -1

\* \s* (greedy) from offset i: the offset of the first non-space lexeme
SkipSpace(s, i) ==
    Min({j \in i..Len(s) : j = Len(s) \/ ~(IsSpace(At(s, j)))})

\* \w* (greedy)
SkipWord(s, i) ==
    Min({j \in i..Len(s) : j = Len(s) \/ ~(IsWord(At(s, j)))})

\* \t* (greedy)
SkipTabs(s, i) ==
    Min({j \in i..Len(s) : j = Len(s) \/ ~(At(s, j) = TAB)})

\* [^"]* (greedy)
SkipNotQuote(s, i) ==
    Min({j \in i..Len(s) : j = Len(s) \/ ~(At(s, j) # QT)})

\* [^\n]* (greedy)
SkipNotNL(s, i) ==
    Min({j \in i..Len(s) : j = Len(s) \/ ~(At(s, j) # NL)})

\* [^\n,}]* (greedy)
SkipValue(s, i) ==
    Min({j \in i..Len(s) : j = Len(s) \/ ~(At(s, j) \notin {NL, ",", RB})})

\* a matcher M after a matcher's result i (-1 stays -1)
Then(i, M(_)) == IF i < 0 THEN -1 ELSE M(i)

\* re.search: the least offset at which M matches, or -1
Search(s, M(_, _)) ==
    With({i \in 0..Len(s) : M(s, i) >= 0}, LAMBDA I :
    IF I = {} THEN -1 ELSE Min(I))

\* "[^"]*"
MatchQuoted(s, i) ==
    With(MatchLit(s, i, <<QT>>), LAMBDA a :
    With(IF a < 0 THEN -1 ELSE SkipNotQuote(s, a), LAMBDA b :
    IF b < 0 THEN -1 ELSE MatchLit(s, b, <<QT>>)))

\* the first offset from i on whose character the scanning loop acts on: a
\* backslash or a quote, and outside a string a brace; Len(content) if none
NextActive(content, i, in_string) ==
    Min({j \in i..Len(content) :
            \/ j = Len(content)
            \/ At(content, j) \in {BS, QT}
            \/ ~in_string /\ At(content, j) \in {LB, RB}})

\* the loop of find_block_end, from offset i on; the characters the loop body
\* passes over without changing depth, in_string or escape_next are stepped
\* over in one go
RECURSIVE find_block_end_loop(_, _, _, _, _)
find_block_end_loop(content, i, depth, in_string, escape_next) ==
    IF i >= Len(content) THEN -1
    ELSE IF escape_next THEN find_block_end_loop(content, i + 1, depth, in_string, FALSE)
    ELSE With(NextActive(content, i, in_string), LAMBDA j :
        IF j >= Len(content) THEN -1
         ELSE With(At(content, j), LAMBDA char :
              IF char = BS THEN find_block_end_loop(content, j + 1, depth, in_string, TRUE)
              ELSE IF char = QT THEN find_block_end_loop(content, j + 1, depth, ~in_string, FALSE)
              ELSE IF char = LB THEN find_block_end_loop(content, j + 1, depth + 1, in_string, FALSE)
              ELSE IF depth - 1 = 0 THEN j
              ELSE find_block_end_loop(content, j + 1, depth - 1, in_string, FALSE)))

\* a scan that counts every brace, those inside strings too
count_every_brace(content, start_pos) ==
    With({r \in start_pos..(Len(content) - 1) :
            Cardinality({k \in start_pos..r : At(content, k) = LB})
            = Cardinality({k \in start_pos..r : At(content, k) = RB})}, LAMBDA R :
    IF R = {} THEN -1 ELSE Min(R))

\* the offset of the closing brace matching the opening brace at start_pos, or -1
find_block_end(content, start_pos) ==
    find_block_end_loop(content, start_pos, 0, FALSE, FALSE)

\* the result of an edit function: a returned document, or a raised ValueError
Ret(d) == [err |-> FALSE, doc |-> d]
Raise == [err |-> TRUE, doc |-> << >>]

\* s.index(c): the offset of the first c in s (the callers only ask for one that exists)
Index(s, c) == Min({i \in 0..(Len(s) - 1) : At(s, i) = c})

\* re.sub(pattern, repl, s): every non-overlapping match of M, leftmost first,
\* replaced by R(start, end); the patterns of this program match no empty text
ReSub(s, M(_, _), R(_, _)) ==
    With({i \in 0..(Len(s) - 1) : M(s, i) > i}, LAMBDA starts :
        LET RECURSIVE go(_)
        go(i) ==
            With({m \in starts : m >= i}, LAMBDA next :
            IF next = {} THEN From(s, i)
            ELSE With(Min(next), LAMBDA m : Slice(s, i, m) \o R(m, M(s, m)) \o go(M(s, m))))
    IN go(0))

\* what re.sub makes of a replacement template: a doubled backslash is one
\* backslash, a backslash before other punctuation is kept with it
RECURSIVE ExpandTemplate(_)
ExpandTemplate(t) ==
    IF t = << >> THEN << >>
    ELSE IF Len(t) >= 2 /\ t[1] = BS /\ t[2] = BS THEN <<BS>> \o ExpandTemplate(SubSeq(t, 3, Len(t)))
    ELSE IF Len(t) >= 2 /\ t[1] = BS THEN <<BS, t[2]>> \o ExpandTemplate(SubSeq(t, 3, Len(t)))
    ELSE <<t[1]>> \o ExpandTemplate(Tail(t))

\* ^(env:\s*app:\s*apps\.\w+\s*&\s*\{) under re.MULTILINE
app_pattern(env, app, s, i) ==
    IF ~(i = 0 \/ (i > 0 /\ i <= Len(s) /\ At(s, i - 1) = NL)) THEN -1
    ELSE With(MatchLit(s, i, <<env, ":">>), LAMBDA a :
        With(Then(a, LAMBDA x : MatchLit(s, SkipSpace(s, x), <<app, ":">>)), LAMBDA b :
        With(Then(b, LAMBDA x : MatchLit(s, SkipSpace(s, x), <<"apps", ".">>)), LAMBDA c :
        With(Then(c, LAMBDA x : IF SkipWord(s, x) > x THEN SkipWord(s, x) ELSE -1), LAMBDA d :
        With(Then(d, LAMBDA x : MatchLit(s, SkipSpace(s, x), <<"&">>)), LAMBDA e :
          Then(e, LAMBDA x : MatchLit(s, SkipSpace(s, x), <<LB>>)))))))

\* (configMap:\s*\{\s*data:\s*\{)
data_pattern(s, i) ==
    With(MatchLit(s, i, <<"configMap", ":">>), LAMBDA a :
    With(Then(a, LAMBDA x : MatchLit(s, SkipSpace(s, x), <<LB>>)), LAMBDA b :
    With(Then(b, LAMBDA x : MatchLit(s, SkipSpace(s, x), <<"data", ":">>)), LAMBDA c :
     Then(c, LAMBDA x : MatchLit(s, SkipSpace(s, x), <<LB>>)))))

\* (configMap:\s*\{)
configmap_pattern(s, i) ==
    Then(MatchLit(s, i, <<"configMap", ":">>), LAMBDA x : MatchLit(s, SkipSpace(s, x), <<LB>>))

\* (appConfig:\s*\{)
appconfig_pattern(s, i) ==
    Then(MatchLit(s, i, <<"appConfig", ":">>), LAMBDA x : MatchLit(s, SkipSpace(s, x), <<LB>>))

\* ("key":\s*) : the end of group 1
quoted_key_prefix(key, s, i) ==
    Then(MatchLit(s, i, <<QT>> \o key \o <<QT, ":">>), LAMBDA x : SkipSpace(s, x))

\* "key":\s*"[^"]*"
existing_pattern(key, s, i) ==
    Then(quoted_key_prefix(key, s, i), LAMBDA x : MatchQuoted(s, x))

\* re.sub(("key":\s*)"[^"]*", \1"value", s)
sub_quoted_value(s, key, value) ==
    ReSub(s, LAMBDA t, i : existing_pattern(key, t, i),
          LAMBDA a, b : Slice(s, a, quoted_key_prefix(key, s, a)) \o <<QT>> \o ExpandTemplate(value) \o <<QT>>)

Tabs(n) == [i \in 1..n |-> TAB]

\* "key": "value" as an f-string renders it
Entry(key, value) == <<QT>> \o key \o <<QT, ":", SP, QT>> \o value \o <<QT>>

add_env_configmap_entry(content, env, app, key, value) ==
    With(Search(content, LAMBDA s, i : app_pattern(env, app, s, i)), LAMBDA app_match :
    IF app_match < 0 THEN Raise
    ELSE
    With(app_pattern(env, app, content, app_match), LAMBDA app_start :
    With(find_block_end(content, app_match + Index(From(content, app_match), LB)), LAMBDA app_block_end :
    With(Slice(content, app_start, app_block_end), LAMBDA app_block :
    With(Search(app_block, data_pattern), LAMBDA data_match :
    With(Search(app_block, configmap_pattern), LAMBDA configmap_match :
    With(Search(app_block, appconfig_pattern), LAMBDA appconfig_match :
    IF data_match >= 0 THEN
        With(app_start + data_pattern(app_block, data_match), LAMBDA insert_pos :
        IF Search(app_block, LAMBDA s, i : existing_pattern(key, s, i)) >= 0
        THEN Ret(sub_quoted_value(content, key, value))
        ELSE Ret(Slice(content, 0, insert_pos) \o <<NL>> \o Tabs(4) \o Entry(key, value)
                 \o From(content, insert_pos)))
    ELSE IF configmap_match >= 0 THEN
        With(app_start + configmap_pattern(app_block, configmap_match), LAMBDA insert_pos :
        Ret(Slice(content, 0, insert_pos)
            \o <<NL>> \o Tabs(3) \o <<"data", ":", SP, LB, NL>> \o Tabs(4) \o Entry(key, value)
            \o <<NL>> \o Tabs(3) \o <<RB>>
            \o From(content, insert_pos)))
    ELSE IF appconfig_match >= 0 THEN
        With(app_start + appconfig_pattern(app_block, appconfig_match), LAMBDA insert_pos :
        Ret(Slice(content, 0, insert_pos)
            \o <<NL>> \o Tabs(2) \o <<"configMap", ":", SP, LB>>
            \o <<NL>> \o Tabs(3) \o <<"data", ":", SP, LB, NL>> \o Tabs(4) \o Entry(key, value)
            \o <<NL>> \o Tabs(3) \o <<RB>>
            \o <<NL>> \o Tabs(2) \o <<RB>>
            \o From(content, insert_pos)))
    ELSE Raise)))))))

\* (\n\s*)"key":\s*"[^"]*"\s*
remove_entry_pattern(key, s, i) ==
    With(MatchLit(s, i, <<NL>>), LAMBDA a :
    With(Then(a, LAMBDA x : existing_pattern(key, s, SkipSpace(s, x))), LAMBDA b :
     Then(b, LAMBDA x : SkipSpace(s, x))))

\* re.sub((\n\s*)"key":\s*"[^"]*"\s*, \1, s)
sub_remove_entry(s, key) ==
    ReSub(s, LAMBDA t, i : remove_entry_pattern(key, t, i),
          LAMBDA a, b : Slice(s, a, SkipSpace(s, a + 1)))

remove_env_configmap_entry(content, env, app, key) ==
    With(Search(content, LAMBDA s, i : app_pattern(env, app, s, i)), LAMBDA app_match :
    IF app_match < 0 THEN Ret(content)
    ELSE
    With(app_match, LAMBDA app_start :
    With(find_block_end(content, app_start + Index(From(content, app_start), LB)), LAMBDA app_block_end :
    With(Slice(content, 0, app_start), LAMBDA before :
    With(Slice(content, app_start, app_block_end + 1), LAMBDA app_block :
    With(From(content, app_block_end + 1), LAMBDA after :
     Ret(before \o sub_remove_entry(app_block, key) \o after)))))))

\* [^}]*? followed by Rest: the offset at which Rest starts, the least one that
\* no "}" precedes and at which Rest matches, or -1
LazyPos(s, p, Rest(_)) ==
    With({j \in p..(Len(s) - 1) : At(s, j) = RB}, LAMBDA stops :
    With(IF stops = {} THEN Len(s) ELSE Min(stops), LAMBDA lim :
    With({j \in p..lim : Rest(j) >= 0}, LAMBDA J :
    IF J = {} THEN -1 ELSE Min(J))))

\* [^}]*? followed by Rest: the offset after the match, or -1
LazyUntil(s, p, Rest(_)) == Then(LazyPos(s, p, Rest), Rest)

\* (appConfig:\s*\{[^}]*?configMap:\s*\{)
app_configmap_pattern(s, i) ==
    Then(appconfig_pattern(s, i), LAMBDA x : LazyUntil(s, x, LAMBDA y : configmap_pattern(s, y)))

\* data:\s*\{
data_open(s, i) ==
    Then(MatchLit(s, i, <<"data", ":">>), LAMBDA x : MatchLit(s, SkipSpace(s, x), <<LB>>))

\* (appConfig:\s*\{[^}]*?configMap:\s*\{[^}]*?data:\s*\{)
app_data_pattern(s, i) ==
    Then(appconfig_pattern(s, i), LAMBDA x :
        LazyUntil(s, x, LAMBDA y :
            Then(configmap_pattern(s, y), LAMBDA z :
                LazyUntil(s, z, LAMBDA w : data_open(s, w)))))

add_app_configmap_entry(content, app, key, value) ==
    With(Search(content, app_data_pattern), LAMBDA data_match :
    With(Search(content, app_configmap_pattern), LAMBDA configmap_match :
    With(Search(content, appconfig_pattern), LAMBDA appconfig_match :
    IF data_match >= 0 THEN
        With(app_data_pattern(content, data_match), LAMBDA insert_pos :
        IF Search(From(content, data_match), LAMBDA s, i : existing_pattern(key, s, i)) >= 0
        THEN Ret(sub_quoted_value(content, key, value))
        ELSE Ret(Slice(content, 0, insert_pos) \o <<NL>> \o Tabs(3) \o Entry(key, value)
                 \o From(content, insert_pos)))
    ELSE IF configmap_match >= 0 THEN
        With(app_configmap_pattern(content, configmap_match), LAMBDA insert_pos :
        Ret(Slice(content, 0, insert_pos)
            \o <<NL>> \o Tabs(2) \o <<"data", ":", SP, LB, NL>> \o Tabs(3) \o Entry(key, value)
            \o <<NL>> \o Tabs(2) \o <<RB>>
            \o From(content, insert_pos)))
    ELSE IF appconfig_match >= 0 THEN
        With(appconfig_pattern(content, appconfig_match), LAMBDA insert_pos :
        Ret(Slice(content, 0, insert_pos)
            \o <<NL>> \o Tabs(2) \o <<"configMap", ":", SP, LB>>
            \o <<NL>> \o Tabs(3) \o <<"data", ":", SP, LB, NL>> \o Tabs(4) \o Entry(key, value)
            \o <<NL>> \o Tabs(3) \o <<RB>>
            \o <<NL>> \o Tabs(2) \o <<RB>>
            \o From(content, insert_pos)))
    ELSE Raise)))

remove_app_configmap_entry(content, app, key) == Ret(sub_remove_entry(content, key))

\* the word lexemes spelled with decimal digits only
DigitWords == {"0", "1", "2", "3", "5", "42", "300"}
\* the word lexemes spelled as digits, e or E, digits
ExponentWords == {"1e5", "5e3", "2E2"}

\* int(value) returns: an optional sign and decimal digits
IntParses(value) ==
    \/ Len(value) = 1 /\ value[1] \in DigitWords
    \/ Len(value) = 2 /\ value[1] \in {"-", "+"} /\ value[2] \in DigitWords

\* float(value) returns, for a value with a "." in it: an optional sign, digits on
\* at least one side of the point, an optional exponent after them
FloatParses(value) ==
    With(IF Len(value) >= 1 /\ value[1] \in {"-", "+"} THEN Tail(value) ELSE value, LAMBDA v :
    \/ Len(v) = 3 /\ v[1] \in DigitWords /\ v[2] = "." /\ v[3] \in DigitWords \cup ExponentWords
    \/ Len(v) = 2 /\ v[1] \in DigitWords /\ v[2] = "."
    \/ Len(v) = 2 /\ v[1] = "." /\ v[2] \in DigitWords \cup ExponentWords)

\* str.lower() of one word lexeme
LowerWord(w) ==
    CASE w \in {"true", "True", "TRUE"} -> "true"
      [] w \in {"false", "False", "FALSE"} -> "false"
      [] OTHER -> w

\* value.lower()
Lower(value) == [i \in DOMAIN value |-> LowerWord(value[i])]

\* the rendering of a raw value in set_env_field
formatted_value(value) ==
    IF (\E i \in DOMAIN value : value[i] = ".") /\ FloatParses(value) THEN value
    ELSE IF ~(\E i \in DOMAIN value : value[i] = ".") /\ IntParses(value) THEN value
    ELSE IF Lower(value) \in {<<"true">>, <<"false">>} THEN Lower(value)
    ELSE <<QT>> \o value \o <<QT>>

\* \s*[^\n,}]+ from offset c: the greedy \s* gives back what [^\n,}]+ needs
FieldValue(s, c) ==
    With(SkipSpace(s, c), LAMBDA w :
    With({k \in c..w : k < Len(s) /\ At(s, k) \notin {NL, ",", RB}}, LAMBDA K :
    IF K = {} THEN -1 ELSE SkipValue(s, Max(K))))

\* (field:\s*)[^\n,}]+
field_rest(field, s, j) ==
    Then(MatchLit(s, j, field \o <<":">>), LAMBDA c : FieldValue(s, c))

\* (appConfig:\s*\{[^}]*?)(field:\s*)[^\n,}]+
field_pattern(field, s, i) ==
    Then(appconfig_pattern(s, i), LAMBDA x : LazyUntil(s, x, LAMBDA j : field_rest(field, s, j)))

\* the start of group 2 of field_pattern matched at i
field_group2(field, s, i) ==
    LazyPos(s, appconfig_pattern(s, i), LAMBDA j : field_rest(field, s, j))

set_env_field(content, env, app, field, value) ==
    With(Search(content, LAMBDA s, i : app_pattern(env, app, s, i)), LAMBDA app_match :
    IF app_match < 0 THEN Raise
    ELSE
    With(app_pattern(env, app, content, app_match), LAMBDA app_start :
    With(find_block_end(content, app_match + Index(From(content, app_match), LB)), LAMBDA app_block_end :
    With(Slice(content, app_start, app_block_end), LAMBDA app_block :
    With(Search(app_block, LAMBDA s, i : field_pattern(field, s, i)), LAMBDA field_match :
    With(Search(app_block, appconfig_pattern), LAMBDA appconfig_match :
    IF field_match >= 0 THEN
        Ret(Slice(content, 0, app_start)
            \o Slice(app_block, 0, field_group2(field, app_block, field_match))
            \o field \o <<":", SP>> \o formatted_value(value)
            \o From(app_block, field_pattern(field, app_block, field_match))
            \o From(content, app_block_end))
    ELSE IF appconfig_match >= 0 THEN
        With(app_start + appconfig_pattern(app_block, appconfig_match), LAMBDA insert_pos :
        Ret(Slice(content, 0, insert_pos)
            \o <<NL>> \o Tabs(2) \o field \o <<":", SP>> \o formatted_value(value)
            \o From(content, insert_pos)))
    ELSE Raise))))))

\* \n\s*field:\s*[^\n,}]+,?\s*
remove_field_pattern(field, s, i) ==
    With(MatchLit(s, i, <<NL>>), LAMBDA a :
    With(Then(a, LAMBDA x : field_rest(field, s, SkipSpace(s, x))), LAMBDA b :
    With(Then(b, LAMBDA x : IF x < Len(s) /\ At(s, x) = "," THEN x + 1 ELSE x), LAMBDA c :
     Then(c, LAMBDA x : SkipSpace(s, x)))))

remove_env_field(content, env, app, field) ==
    With(Search(content, LAMBDA s, i : app_pattern(env, app, s, i)), LAMBDA app_match :
    IF app_match < 0 THEN Ret(content)
    ELSE
    With(app_match, LAMBDA app_start :
    With(find_block_end(content, app_start + Index(From(content, app_start), LB)), LAMBDA app_block_end :
    With(Slice(content, 0, app_start), LAMBDA before :
    With(Slice(content, app_start, app_block_end + 1), LAMBDA app_block :
    With(From(content, app_block_end + 1), LAMBDA after :
     Ret(before
           \o ReSub(app_block, LAMBDA t, i : remove_field_pattern(field, t, i), LAMBDA a, b : <<NL>>)
           \o after)))))))


\* \b at offset i: a word character on exactly one side
WordBoundary(s, i) ==
    (i > 0 /\ i <= Len(s) /\ IsWord(At(s, i - 1))) # (i >= 0 /\ i < Len(s) /\ IsWord(At(s, i)))

\* (\bkey:\s*) : the end of group 1
bare_key_prefix(key, s, i) ==
    IF WordBoundary(s, i) THEN Then(MatchLit(s, i, key \o <<":">>), LAMBDA x : SkipSpace(s, x)) ELSE -1

\* \bkey:\s*"[^"]*"
key_pattern_unquoted(key, s, i) ==
    Then(bare_key_prefix(key, s, i), LAMBDA x : MatchQuoted(s, x))

\* re.sub((\bkey:\s*)"[^"]*", \1"value", s)
sub_bare_value(s, key, value) ==
    ReSub(s, LAMBDA t, i : key_pattern_unquoted(key, t, i),
          LAMBDA a, b : Slice(s, a, bare_key_prefix(key, s, a)) \o <<QT>> \o ExpandTemplate(value) \o <<QT>>)

\* (appConfig:\s*\{[^}]*?labels:\s*\{)
labels_pattern(s, i) ==
    Then(appconfig_pattern(s, i), LAMBDA x :
        LazyUntil(s, x, LAMBDA y :
            Then(MatchLit(s, y, <<"labels", ":">>), LAMBDA z : MatchLit(s, SkipSpace(s, z), <<LB>>))))

\* \n(\t+)\w
indent_pattern(s, i) ==
    With(MatchLit(s, i, <<NL>>), LAMBDA a :
    With(Then(a, LAMBDA x : IF SkipTabs(s, x) > x THEN SkipTabs(s, x) ELSE -1), LAMBDA b :
     Then(b, LAMBDA x : IF x < Len(s) /\ IsWord(At(s, x)) THEN x + 1 ELSE -1)))

\* group 1 of the first match of \n(\t+)\w in block, or dflt
indent_of(block, dflt) ==
    With(Search(block, indent_pattern), LAMBDA m :
    IF m < 0 THEN dflt ELSE Slice(block, m + 1, indent_pattern(block, m) - 1))

\* $ : the end of the text, or just before a newline that ends it
AtEnd(s, i) == i = Len(s) \/ (i = Len(s) - 1 /\ At(s, i) = NL)

\* (\n\t*)\}$
close_line_pattern(s, i) ==
    With(MatchLit(s, i, <<NL>>), LAMBDA a :
    With(Then(a, LAMBDA x : MatchLit(s, SkipTabs(s, x), <<RB>>)), LAMBDA b :
     Then(b, LAMBDA x : IF AtEnd(s, x) THEN x ELSE -1)))

\* the key as add_env_label writes it: quoted when it holds "-", "." or "/"
quoted_key(key) ==
    IF \E i \in DOMAIN key : key[i] \in {"-", ".", "/"} THEN <<QT>> \o key \o <<QT>> ELSE key

add_env_label(content, env, app, key, value) ==
    With(Search(content, LAMBDA s, i : app_pattern(env, app, s, i)), LAMBDA app_match :
    IF app_match < 0 THEN Raise
    ELSE
    With(app_pattern(env, app, content, app_match), LAMBDA app_start :
    With(find_block_end(content, app_match + Index(From(content, app_match), LB)), LAMBDA app_block_end :
    With(Slice(content, app_start, app_block_end), LAMBDA app_block :
    With(Search(app_block, labels_pattern), LAMBDA labels_match :
    With(Search(app_block, appconfig_pattern), LAMBDA appconfig_match :
    IF labels_match >= 0 THEN
        With(app_start + labels_pattern(app_block, labels_match) - 1, LAMBDA labels_block_start :
        With(find_block_end(content, labels_block_start), LAMBDA labels_block_end :
        With(Slice(content, labels_block_start, labels_block_end + 1), LAMBDA labels_block :
        With(indent_of(labels_block, Tabs(3)), LAMBDA indent :
        With(Search(labels_block, close_line_pattern), LAMBDA close_line_match :
        With(<<NL>> \o indent \o quoted_key(key) \o <<":", SP, QT>> \o value \o <<QT>>, LAMBDA new_entry :
        IF Search(labels_block, LAMBDA s, i : existing_pattern(key, s, i)) >= 0 THEN
            Ret(Slice(content, 0, labels_block_start)
                \o sub_quoted_value(labels_block, key, value)
                \o From(content, labels_block_end + 1))
        ELSE IF Search(labels_block, LAMBDA s, i : key_pattern_unquoted(key, s, i)) >= 0 THEN
            Ret(Slice(content, 0, labels_block_start)
                \o sub_bare_value(labels_block, key, value)
                \o From(content, labels_block_end + 1))
        ELSE IF close_line_match >= 0 THEN
            With(labels_block_start + close_line_match, LAMBDA insert_pos :
            Ret(Slice(content, 0, insert_pos) \o new_entry \o From(content, insert_pos)))
        ELSE
            With(labels_block_end, LAMBDA insert_pos :
            Ret(Slice(content, 0, insert_pos) \o new_entry \o <<NL, TAB, TAB>> \o From(content, insert_pos)))))))))
    ELSE IF appconfig_match >= 0 THEN
        With(app_start + appconfig_pattern(app_block, appconfig_match), LAMBDA insert_pos :
        Ret(Slice(content, 0, insert_pos)
            \o <<NL>> \o Tabs(2) \o <<"labels", ":", SP, LB>>
            \o <<NL>> \o Tabs(3) \o quoted_key(key) \o <<":", SP, QT>> \o value \o <<QT>>
            \o <<NL>> \o Tabs(2) \o <<RB>>
            \o From(content, insert_pos)))
    ELSE Raise))))))

\* \n\s*"key":\s*"[^"]*"
remove_quoted_pattern(key, s, i) ==
    Then(MatchLit(s, i, <<NL>>), LAMBDA x : existing_pattern(key, s, SkipSpace(s, x)))

\* \n\s*key:\s*"[^"]*"
remove_bare_pattern(key, s, i) ==
    With(MatchLit(s, i, <<NL>>), LAMBDA a :
    With(Then(a, LAMBDA x : MatchLit(s, SkipSpace(s, x), key \o <<":">>)), LAMBDA b :
     Then(b, LAMBDA x : MatchQuoted(s, SkipSpace(s, x)))))

\* re.sub(pattern, '', s)
Delete(s, M(_, _)) == ReSub(s, M, LAMBDA a, b : << >>)

remove_env_label(content, env, app, key) ==
    With(Search(content, LAMBDA s, i : app_pattern(env, app, s, i)), LAMBDA app_match :
    IF app_match < 0 THEN Ret(content)
    ELSE
    With(app_match, LAMBDA app_start :
    With(find_block_end(content, app_start + Index(From(content, app_start), LB)), LAMBDA app_block_end :
    With(Slice(content, 0, app_start), LAMBDA before :
    With(Slice(content, app_start, app_block_end + 1), LAMBDA app_block :
    With(From(content, app_block_end + 1), LAMBDA after :
    With(Delete(app_block, LAMBDA t, i : remove_quoted_pattern(key, t, i)), LAMBDA by_quoted :
    With(IF by_quoted = app_block
                         THEN Delete(app_block, LAMBDA t, i : remove_bare_pattern(key, t, i))
                         ELSE by_quoted, LAMBDA new_app_block :
     Ret(before \o new_app_block \o after)))))))))

\* defaultLabels:\s*\{
default_labels_pattern(s, i) ==
    Then(MatchLit(s, i, <<"defaultLabels", ":">>), LAMBDA x : MatchLit(s, SkipSpace(s, x), <<LB>>))

\* \s*[^\n]+ from offset c: the offset at which [^\n]+ starts (the greedy \s*
\* gives back what it needs), or -1
LineValueStart(s, c) ==
    With(SkipSpace(s, c), LAMBDA w :
    With({k \in c..w : k < Len(s) /\ At(s, k) # NL}, LAMBDA K :
    IF K = {} THEN -1 ELSE Max(K)))

\* ("key":\s*)[^\n]+ : the end of group 1
quoted_line_prefix(key, s, i) ==
    Then(MatchLit(s, i, <<QT>> \o key \o <<QT, ":">>), LAMBDA x : LineValueStart(s, x))

\* "key":\s*[^\n]+
key_line_quoted(key, s, i) ==
    Then(quoted_line_prefix(key, s, i), LAMBDA x : SkipNotNL(s, x))

\* (\bkey:\s*)[^\n]+ : the end of group 1
bare_line_prefix(key, s, i) ==
    IF WordBoundary(s, i) THEN Then(MatchLit(s, i, key \o <<":">>), LAMBDA x : LineValueStart(s, x)) ELSE -1

\* \bkey:\s*[^\n]+
key_line_unquoted(key, s, i) ==
    Then(bare_line_prefix(key, s, i), LAMBDA x : SkipNotNL(s, x))

_add_label_to_default_labels(content, key, value) ==
    With(Search(content, default_labels_pattern), LAMBDA default_labels_match :
    IF default_labels_match < 0 THEN Raise
    ELSE
    With(default_labels_pattern(content, default_labels_match) - 1, LAMBDA block_start :
    With(find_block_end(content, block_start), LAMBDA block_end :
    With(Slice(content, block_start, block_end + 1), LAMBDA default_labels_block :
    With(indent_of(default_labels_block, Tabs(2)), LAMBDA indent :
    With(Search(default_labels_block, close_line_pattern), LAMBDA close_line_match :
    With(<<NL>> \o indent \o <<QT>> \o key \o <<QT, ":", SP, QT>> \o value \o <<QT>>, LAMBDA new_entry :
    IF block_end = -1 THEN Raise
    ELSE IF Search(default_labels_block, LAMBDA s, i : key_line_quoted(key, s, i)) >= 0 THEN
        Ret(Slice(content, 0, block_start)
            \o ReSub(default_labels_block, LAMBDA t, i : key_line_quoted(key, t, i),
                     LAMBDA a, b : Slice(default_labels_block, a, quoted_line_prefix(key, default_labels_block, a))
                                   \o <<QT>> \o ExpandTemplate(value) \o <<QT>>)
            \o From(content, block_end + 1))
    ELSE IF Search(default_labels_block, LAMBDA s, i : key_line_unquoted(key, s, i)) >= 0 THEN
        Ret(Slice(content, 0, block_start)
            \o ReSub(default_labels_block, LAMBDA t, i : key_line_unquoted(key, t, i),
                     LAMBDA a, b : Slice(default_labels_block, a, bare_line_prefix(key, default_labels_block, a))
                                   \o <<QT>> \o ExpandTemplate(value) \o <<QT>>)
            \o From(content, block_end + 1))
    ELSE IF close_line_match >= 0 THEN
        With(block_start + close_line_match, LAMBDA insert_pos :
        Ret(Slice(content, 0, insert_pos) \o new_entry \o From(content, insert_pos)))
    ELSE
        With(block_end, LAMBDA insert_pos :
        Ret(Slice(content, 0, insert_pos) \o new_entry \o <<NL, TAB>> \o From(content, insert_pos))))))))))

\* \n\s*key:\s*[^\n]+
remove_bare_line_pattern(key, s, i) ==
    With(MatchLit(s, i, <<NL>>), LAMBDA a :
    With(Then(a, LAMBDA x : MatchLit(s, SkipSpace(s, x), key \o <<":">>)), LAMBDA b :
    With(Then(b, LAMBDA x : LineValueStart(s, x)), LAMBDA c :
     Then(c, LAMBDA x : SkipNotNL(s, x)))))

\* remove_platform_label, from the text of app.cue to its new text
remove_platform_label(app_content, key) ==
    With(Search(app_content, default_labels_pattern), LAMBDA default_labels_match :
    IF default_labels_match < 0 THEN Raise
    ELSE
    With(default_labels_pattern(app_content, default_labels_match) - 1, LAMBDA block_start :
    With(find_block_end(app_content, block_start), LAMBDA block_end :
    With(Slice(app_content, block_start, block_end + 1), LAMBDA default_labels_block :
    With(Delete(default_labels_block, LAMBDA t, i : remove_quoted_pattern(key, t, i)), LAMBDA by_quoted :
    With(IF by_quoted = default_labels_block
                     THEN Delete(default_labels_block, LAMBDA t, i : remove_bare_line_pattern(key, t, i))
                     ELSE by_quoted, LAMBDA new_block :
    IF block_end = -1 THEN Raise
    ELSE Ret(Slice(app_content, 0, block_start) \o new_block \o From(app_content, block_end + 1))))))))

\* add_platform_label, from the text of app.cue to its new text
add_platform_label(app_content, key, value) == _add_label_to_default_labels(app_content, key, value)


\* a line of the block at depth n
Line(n, text) == <<NL>> \o Tabs(n) \o text

\* the comment lines add_platform_annotation writes above defaultPodAnnotations
CommentDefault == <<"//", SP, "Default", SP, "pod", SP, "annotations">>
CommentApplied == CommentDefault \o <<SP, "applied", SP, "to", SP, "all", SP, "deployments">>
CommentMerged == <<"//", SP, "Merged", SP, "with">>
CommentMergedAny ==
    CommentMerged \o <<SP, "any", SP, "podAnnotations", SP, "provided", SP, "via", SP,
                       "appConfig", ".", "deployment", ".", "podAnnotations">>

\* defaultPodAnnotations: { entries } under its two comment lines
AnnotationStruct(entries) ==
    <<NL, NL, TAB>> \o CommentApplied \o <<NL, TAB>> \o CommentMergedAny
    \o <<NL, TAB, "defaultPodAnnotations", ":", SP, LB>> \o entries \o <<NL, TAB, RB>>

\* "appEnvFrom": _computedAppEnvFrom
TemplateArg == <<QT, "appEnvFrom", QT, ":", SP, "_computedAppEnvFrom">>
\* "defaultPodAnnotations": defaultPodAnnotations
TemplateAnnotationArg == <<QT, "defaultPodAnnotations", QT, ":", SP, "defaultPodAnnotations">>


\* the lines _add_annotation_param_to_deployment_cue writes
CommentProvided == CommentDefault \o <<SP, "(", "provided", SP, "by", SP, "app", ".", "cue", ")">>
CommentMergedWith == CommentMerged \o <<SP, "appConfig", ".", "deployment", ".", "podAnnotations">>
ParamDecl == <<"defaultPodAnnotations", ":", SP, "[", "string", "]", ":", SP, "string">>
\* the lines _add_annotation_merge_logic writes
CommentComputedHead == <<"//", SP, "Computed", SP, "pod", SP, "annotations">>
CommentComputed ==
    CommentComputedHead \o <<SP, "-", SP, "merge", SP, "defaults", SP, "with", SP, "config">>
MergeDecl ==
    <<"_podAnnotations", ":", SP, "defaultPodAnnotations", SP, "&", SP, "(", "appConfig", ".",
      "deployment", ".", "podAnnotations", SP, "|", SP, LB, RB, ")">>
\* annotations: _podAnnotations
DirectAnnotations == <<"annotations", ":", SP, "_podAnnotations">>
\* appConfig.deployment.podAnnotations
PodAnnotationsPath == <<"appConfig", ".", "deployment", ".", "podAnnotations">>
\* if appConfig.deployment.podAnnotations != _|_ {
IfAnnotations == <<"if", SP>> \o PodAnnotationsPath \o <<SP, "!", "=", SP, "_", "|", "_", SP, LB>>
\* the conditional block remove_platform_annotation writes back
ConditionalAnnotations ==
    IfAnnotations \o <<NL>> \o Tabs(5) \o <<"annotations", ":", SP>> \o PodAnnotationsPath
    \o <<NL>> \o Tabs(4) \o <<RB>>

\* lit in s
Contains(s, lit) == \E i \in 0..Len(s) : MatchLit(s, i, lit) >= 0

\* defaultPodAnnotations:\s*\{
annotations_open(s, i) ==
    Then(MatchLit(s, i, <<"defaultPodAnnotations", ":">>), LAMBDA x : MatchLit(s, SkipSpace(s, x), <<LB>>))

\* [^}]* (greedy)
SkipNotRB(s, i) ==
    Min({j \in i..Len(s) : j = Len(s) \/ ~(At(s, j) # RB)})

\* defaultLabels:\s*\{[^}]+\}
default_labels_struct(s, i) ==
    With(default_labels_pattern(s, i), LAMBDA a :
    With(Then(a, LAMBDA x : IF SkipNotRB(s, x) > x THEN SkipNotRB(s, x) ELSE -1), LAMBDA b :
     Then(b, LAMBDA x : MatchLit(s, x, <<RB>>))))

_add_annotation_to_app_cue(content, key, value) ==
    IF Contains(content, <<"defaultPodAnnotations", ":">>) THEN
        IF Search(content, LAMBDA s, i : existing_pattern(key, s, i)) >= 0
        THEN Ret(sub_quoted_value(content, key, value))
        ELSE With(Search(content, annotations_open), LAMBDA match :
            IF match >= 0
             THEN With(annotations_open(content, match), LAMBDA insert_pos :
                  Ret(Slice(content, 0, insert_pos) \o <<NL>> \o Tabs(2) \o Entry(key, value)
                      \o From(content, insert_pos)))
             ELSE Ret(content))
    ELSE With(Search(content, default_labels_struct), LAMBDA match :
        IF match >= 0
         THEN With(default_labels_struct(content, match), LAMBDA insert_pos :
              Ret(Slice(content, 0, insert_pos) \o AnnotationStruct(Line(2, Entry(key, value)))
                  \o From(content, insert_pos)))
         ELSE Raise)

\* ("appEnvFrom":\s*_computedAppEnvFrom)
template_arg_pattern(s, i) ==
    Then(MatchLit(s, i, <<QT, "appEnvFrom", QT, ":">>),
         LAMBDA x : MatchLit(s, SkipSpace(s, x), <<"_computedAppEnvFrom">>))

_add_annotation_param_to_template_call(content) ==
    IF Contains(content, <<QT, "defaultPodAnnotations", QT, ":">>) THEN content
    ELSE ReSub(content, template_arg_pattern,
               LAMBDA a, b : Slice(content, a, b) \o Line(3, TemplateAnnotationArg))

\* [^\]]* (greedy)
SkipNotBracket(s, i) ==
    Min({j \in i..Len(s) : j = Len(s) \/ ~(At(s, j) # "]")})

\* (appEnvFrom:\s*\[\.\.\.[^\]]+\]\s*\|\s*\*\[\])
env_from_param_pattern(s, i) ==
    With(MatchLit(s, i, <<"appEnvFrom", ":">>), LAMBDA a :
    With(Then(a, LAMBDA x : MatchLit(s, SkipSpace(s, x), <<"[", ".", ".", ".">>)), LAMBDA b :
    With(Then(b, LAMBDA x : IF SkipNotBracket(s, x) > x THEN SkipNotBracket(s, x) ELSE -1), LAMBDA c :
    With(Then(c, LAMBDA x : MatchLit(s, x, <<"]">>)), LAMBDA d :
    With(Then(d, LAMBDA x : MatchLit(s, SkipSpace(s, x), <<"|">>)), LAMBDA e :
     Then(e, LAMBDA x : MatchLit(s, SkipSpace(s, x), <<"*", "[", "]">>)))))))

_add_annotation_param_to_deployment_cue(content) ==
    IF Contains(content, <<"defaultPodAnnotations", ":">>) THEN content
    ELSE ReSub(content, env_from_param_pattern,
               LAMBDA a, b : Slice(content, a, b) \o <<NL, NL, TAB>> \o CommentProvided
                             \o <<NL, TAB>> \o CommentMergedWith \o <<NL, TAB>> \o ParamDecl)

\* (_labels:\s*_defaultLabels\s*&\s*appConfig\.labels)
labels_decl_pattern(s, i) ==
    With(MatchLit(s, i, <<"_labels", ":">>), LAMBDA a :
    With(Then(a, LAMBDA x : MatchLit(s, SkipSpace(s, x), <<"_defaultLabels">>)), LAMBDA b :
    With(Then(b, LAMBDA x : MatchLit(s, SkipSpace(s, x), <<"&">>)), LAMBDA c :
     Then(c, LAMBDA x : MatchLit(s, SkipSpace(s, x), <<"appConfig", ".", "labels">>)))))

_add_annotation_merge_logic(content) ==
    IF Contains(content, <<"_podAnnotations", ":">>) THEN content
    ELSE ReSub(content, labels_decl_pattern,
               LAMBDA a, b : Slice(content, a, b) \o <<NL, NL, TAB>> \o CommentComputed
                             \o <<NL, TAB>> \o MergeDecl)

\* \s*\n\s* : a run of white space with a newline in it
SpaceWithNewline(s, i) ==
    With(SkipSpace(s, i), LAMBDA e :
    IF \E j \in i..(e - 1) : At(s, j) = NL THEN e ELSE -1)

\* if appConfig\.deployment\.podAnnotations != _\|_ \{\s*\n\s*annotations:
\* appConfig\.deployment\.podAnnotations\s*\n\s*\}
conditional_pattern(s, i) ==
    With(MatchLit(s, i, IfAnnotations), LAMBDA a :
    With(Then(a, LAMBDA x : SpaceWithNewline(s, x)), LAMBDA b :
    With(Then(b, LAMBDA x : MatchLit(s, x, <<"annotations", ":", SP>> \o PodAnnotationsPath)), LAMBDA c :
    With(Then(c, LAMBDA x : SpaceWithNewline(s, x)), LAMBDA d :
     Then(d, LAMBDA x : MatchLit(s, x, <<RB>>))))))

_update_pod_template_annotations(content) ==
    IF Contains(content, DirectAnnotations) THEN content
    ELSE ReSub(content, conditional_pattern, LAMBDA a, b : DirectAnnotations)

\* add_platform_annotation, from the texts of app.cue and deployment.cue to
\* their new texts
add_platform_annotation(app_content, deployment_content, key, value) ==
    With(_add_annotation_to_app_cue(app_content, key, value), LAMBDA step1 :
    IF step1.err THEN [err |-> TRUE, app_cue |-> << >>, deployment_cue |-> << >>]
    ELSE [err |-> FALSE,
          app_cue |-> _add_annotation_param_to_template_call(step1.doc),
          deployment_cue |-> _update_pod_template_annotations(
                                 _add_annotation_merge_logic(
                                     _add_annotation_param_to_deployment_cue(deployment_content)))])

\* defaultPodAnnotations:\s*\{\s*\}
empty_struct_pattern(s, i) ==
    Then(annotations_open(s, i), LAMBDA x : MatchLit(s, SkipSpace(s, x), <<RB>>))

\* \n\s*// Default pod annotations[^\n]*\n\s*// Merged with[^\n]*\n\s*
comment_pair_pattern(s, i) ==
    With(MatchLit(s, i, <<NL>>), LAMBDA a :
    With(Then(a, LAMBDA x : MatchLit(s, SkipSpace(s, x), CommentDefault)), LAMBDA b :
    With(Then(b, LAMBDA x : MatchLit(s, SkipNotNL(s, x), <<NL>>)), LAMBDA c :
    With(Then(c, LAMBDA x : MatchLit(s, SkipSpace(s, x), CommentMerged)), LAMBDA d :
    With(Then(d, LAMBDA x : MatchLit(s, SkipNotNL(s, x), <<NL>>)), LAMBDA e :
     Then(e, LAMBDA x : SkipSpace(s, x)))))))

\* ...defaultPodAnnotations:\s*\{\s*\}
full_block_pattern(s, i) ==
    Then(comment_pair_pattern(s, i), LAMBDA x : empty_struct_pattern(s, x))

\* [^\n]+
RestOfLine(s, x) == IF SkipNotNL(s, x) > x THEN SkipNotNL(s, x) ELSE -1

\* ...defaultPodAnnotations:[^\n]+
param_block_pattern(s, i) ==
    With(comment_pair_pattern(s, i), LAMBDA a :
    With(Then(a, LAMBDA x : MatchLit(s, x, <<"defaultPodAnnotations", ":">>)), LAMBDA b :
     Then(b, LAMBDA x : RestOfLine(s, x))))

\* \n\s*"defaultPodAnnotations":\s*defaultPodAnnotations
template_annotation_pattern(s, i) ==
    With(MatchLit(s, i, <<NL>>), LAMBDA a :
    With(Then(a, LAMBDA x : MatchLit(s, SkipSpace(s, x), <<QT, "defaultPodAnnotations", QT, ":">>)), LAMBDA b :
     Then(b, LAMBDA x : MatchLit(s, SkipSpace(s, x), <<"defaultPodAnnotations">>))))

\* \n\s*// Computed pod annotations[^\n]*\n\s*_podAnnotations:[^\n]+
merge_block_pattern(s, i) ==
    With(MatchLit(s, i, <<NL>>), LAMBDA a :
    With(Then(a, LAMBDA x : MatchLit(s, SkipSpace(s, x), CommentComputedHead)), LAMBDA b :
    With(Then(b, LAMBDA x : MatchLit(s, SkipNotNL(s, x), <<NL>>)), LAMBDA c :
    With(Then(c, LAMBDA x : MatchLit(s, SkipSpace(s, x), <<"_podAnnotations", ":">>)), LAMBDA d :
     Then(d, LAMBDA x : RestOfLine(s, x))))))

\* remove_platform_annotation, from the texts of app.cue and deployment.cue to
\* their new texts
remove_platform_annotation(app_content, deployment_content, key) ==
    With(Delete(app_content, LAMBDA t, i : remove_quoted_pattern(key, t, i)), LAMBDA removed :
    IF Search(removed, empty_struct_pattern) >= 0 THEN
        [err |-> FALSE,
         app_cue |-> Delete(Delete(removed, full_block_pattern), template_annotation_pattern),
         deployment_cue |->
             ReSub(Delete(Delete(deployment_content, merge_block_pattern), param_block_pattern),
                   LAMBDA t, i : MatchLit(t, i, DirectAnnotations),
                   LAMBDA a, b : ConditionalAnnotations)]
    ELSE [err |-> FALSE, app_cue |-> removed, deployment_cue |-> deployment_content])


(***************************************************************************)
(* The documents and arguments the commands are run on.                    *)
(***************************************************************************)

\* <env>: app: apps.app & {
Header(env) == <<env, ":", SP, "app", ":", SP, "apps", ".", "app", SP, "&", SP, LB>>

\* one environment block: the header, appConfig: { body }, and the closing braces
Block(env, body) ==
    Header(env) \o <<NL, TAB, "appConfig", ":", SP, LB>> \o body \o <<NL, TAB, RB, NL, RB, NL>>

\* configMap: { data: { entries } }
ConfigMapData(entries) ==
    Line(2, <<"configMap", ":", SP, LB>>) \o Line(3, <<"data", ":", SP, LB>>) \o entries
    \o Line(3, <<RB>>) \o Line(2, <<RB>>)

\* labels: { entries }
Labels(entries) == Line(2, <<"labels", ":", SP, LB>>) \o entries \o Line(2, <<RB>>)

\* what stands inside appConfig: { } in the documents
Bodies == {
    << >>,
    ConfigMapData(<< >>),
    ConfigMapData(Line(4, Entry(<<"k">>, <<"v1">>))),
    ConfigMapData(Line(4, Entry(<<"x">>, <<"v1">>))),
    Line(2, <<"configMap", ":", SP, LB>>) \o Line(3, <<"data", ":", SP, LB, RB>>) \o Line(2, <<RB>>),
    Line(2, <<"configMap", ":", SP, LB>>) \o Line(2, <<RB>>),
    Labels(Line(3, <<"k", ":", SP, QT, "v1", QT>>)),
    Labels(Line(3, Entry(<<"k">>, <<"v1">>))),
    Labels(Line(3, <<"x", ":", SP, QT, "v1", QT>>)),
    Line(2, <<"labels", ":", SP, LB, RB>>),
    Line(2, <<"k", ":", SP, "1">>),
    Line(2, <<"k", ":", SP, QT, "a", RB, "b", QT>>),
    Line(2, <<"k", ":", SP, LB>>) \o Line(3, <<"x", ":", SP, QT, "v1", QT>>) \o Line(2, <<RB>>),
    Line(2, <<"k", ":", SP, SP, "1">>),
    Line(2, <<QT, "k", QT, ":", SP, "1">>),
    ConfigMapData(Line(4, <<"k", ":", SP, QT, "v1", QT>>))
}

\* env.cue: one block, two sibling blocks with the same body, the same header
\* twice, a block without appConfig, and a block cut off before its closing braces
EnvDocs ==
    {Block("dev", b) : b \in Bodies}
    \cup {Block("dev", b) \o Block("prod", b) : b \in Bodies}
    \cup {Block("dev", << >>) \o Block("dev", b) : b \in {<< >>, ConfigMapData(<< >>)}}
    \cup {Header("dev") \o <<NL, RB, NL>>}
    \cup {Block("prod", << >>) \o Header("dev") \o <<NL, TAB, "appConfig", ":", SP, LB>> \o b \o <<NL>> :
            b \in {<< >>, ConfigMapData(Line(4, Entry(<<"k">>, <<"v1">>)))}}

\* services/apps/<app>.cue: app: core.#App & { appName: "app" appConfig: { body } }
AppDocs ==
    {<<"app", ":", SP, "core", ".", "#", "App", SP, "&", SP, LB>>
        \o <<NL, TAB, "appName", ":", SP, QT, "app", QT>>
        \o <<NL, TAB, "appConfig", ":", SP, LB>> \o b \o <<NL, TAB, RB, NL, RB, NL>> :
     b \in {<< >>, ConfigMapData(<< >>), ConfigMapData(Line(4, Entry(<<"k">>, <<"v1">>)))}}

\* services/core/app.cue: #App: { defaultLabels: { labels } annotations deployment: { args } }
AppCue(labels, annotations, args) ==
    <<"#", "App", ":", SP, LB>>
    \o <<NL, TAB, "defaultLabels", ":", SP, LB>> \o labels \o <<NL, TAB, RB>>
    \o annotations
    \o <<NL, TAB, "deployment", ":", SP, LB>> \o Line(2, TemplateArg) \o args \o <<NL, TAB, RB>>
    \o <<NL, RB, NL>>

LabelApp == Line(2, <<"app", ":", SP, QT, "x", QT>>)

PlatformDocs ==
    {AppCue(l, << >>, << >>) :
        l \in {LabelApp,
               LabelApp \o Line(2, <<"k", ":", SP, QT, "v1", QT>>),
               LabelApp \o Line(2, Entry(<<"k">>, <<"v1">>)),
               Line(2, Entry(<<"x">>, <<"v1">>))}}
    \cup {AppCue(LabelApp, AnnotationStruct(e), Line(3, TemplateAnnotationArg)) :
        e \in {Line(2, Entry(<<"k">>, <<"v1">>)),
               Line(2, Entry(<<"k">>, <<"v1">>)) \o Line(2, Entry(<<"x">>, <<"v1">>))}}
    \cup {<<"#", "App", ":", SP, LB, NL, RB, NL>>,
          <<"#", "App", ":", SP, LB, NL, TAB, "defaultLabels", ":", SP, LB>> \o LabelApp \o <<NL>>}


\* services/resources/deployment.cue, before and after add_platform_annotation
DeploymentCue(param, merge, annotations) ==
    <<"#", "DeploymentTemplate", ":", SP, LB>>
    \o Line(1, <<"appEnvFrom", ":", SP, "[", ".", ".", ".", "k8s", ".", "#", "EnvFromSource", "]",
                 SP, "|", SP, "*", "[", "]">>)
    \o param
    \o Line(1, <<"_labels", ":", SP, "_defaultLabels", SP, "&", SP, "appConfig", ".", "labels">>)
    \o merge
    \o Line(1, <<"metadata", ":", SP, LB>>) \o Line(4, annotations) \o Line(1, <<RB>>)
    \o <<NL, RB, NL>>

DeploymentPlain == DeploymentCue(<< >>, << >>, ConditionalAnnotations)
DeploymentAnnotated ==
    DeploymentCue(<<NL, NL, TAB>> \o CommentProvided \o <<NL, TAB>> \o CommentMergedWith
                      \o <<NL, TAB>> \o ParamDecl,
                  <<NL, NL, TAB>> \o CommentComputed \o <<NL, TAB>> \o MergeDecl,
                  DirectAnnotations)
DeploymentDocs == {DeploymentPlain, DeploymentAnnotated}


Envs == {"dev", "prod"}
Keys == {<<"k">>}
Values == {<<"v1">>, <<"v2">>, <<"2">>, <<"a", ",", "b">>, <<"a", RB, "b">>, <<"a", BS, QT, "b">>}


(***************************************************************************)
(* The file system and the commands of main.                               *)
(***************************************************************************)

\* a path of the file system holds a file with its data, or nothing
File(d) == [exists |-> TRUE, data |-> d]
Absent == [exists |-> FALSE, data |-> << >>]

\* the invocations of the program; Tmp(p) is the temporary file of invocation p
Invocations == {1, 2}
Tmp(p) == IF p = 1 THEN "tmp1" ELSE "tmp2"

\* args.file, services/core/app.cue and services/resources/deployment.cue
MainPaths == {"file", "app.cue", "deployment.cue"}
\* str(path) + '.bak'
Bak(path) ==
    CASE path = "file" -> "file.bak"
      [] path = "app.cue" -> "app.cue.bak"
      [] path = "deployment.cue" -> "deployment.cue.bak"
Paths == MainPaths \cup {Bak(t) : t \in MainPaths} \cup {Tmp(p) : p \in Invocations}

\* the app argument of the commands
App == "app"

EnvFamilies == {"env-configmap", "env-field", "env-label"}
SingleFileFamilies == EnvFamilies \cup {"app-configmap"}
PlatformFamilies == {"platform-label", "platform-annotation"}

\* the command lines: family, action (set counts as add), and the arguments
Cmd(family, action, env, key, value) ==
    [family |-> family, action |-> action, env |-> env, key |-> key, value |-> value]
NoCmd == Cmd("none", "none", "dev", << >>, << >>)
Commands ==
    {Cmd(f, "add", e, k, v) : f \in EnvFamilies, e \in Envs, k \in Keys, v \in Values}
    \cup {Cmd(f, "remove", e, k, << >>) : f \in EnvFamilies, e \in Envs, k \in Keys}
    \cup {Cmd(f, "add", "dev", k, v) : f \in PlatformFamilies \cup {"app-configmap"}, k \in Keys, v \in Values}
    \cup {Cmd(f, "remove", "dev", k, << >>) : f \in PlatformFamilies \cup {"app-configmap"}, k \in Keys}

\* the files a command rewrites, in the order main backs them up and writes them
Targets(c) ==
    CASE c.family = "platform-annotation" -> <<"app.cue", "deployment.cue">>
      [] c.family = "platform-label" -> <<"app.cue">>
      [] OTHER -> <<"file">>

\* the dispatch of main on command and action, for the commands on args.file
modify(c, content) ==
    CASE c.family = "env-configmap" /\ c.action = "add" ->
            add_env_configmap_entry(content, c.env, App, c.key, c.value)
      [] c.family = "env-configmap" /\ c.action = "remove" ->
            remove_env_configmap_entry(content, c.env, App, c.key)
      [] c.family = "app-configmap" /\ c.action = "add" ->
            add_app_configmap_entry(content, App, c.key, c.value)
      [] c.family = "app-configmap" /\ c.action = "remove" ->
            remove_app_configmap_entry(content, App, c.key)
      [] c.family = "env-field" /\ c.action = "add" ->
            set_env_field(content, c.env, App, c.key, c.value)
      [] c.family = "env-field" /\ c.action = "remove" ->
            remove_env_field(content, c.env, App, c.key)
      [] c.family = "env-label" /\ c.action = "add" ->
            add_env_label(content, c.env, App, c.key, c.value)
      [] c.family = "env-label" /\ c.action = "remove" ->
            remove_env_label(content, c.env, App, c.key)

\* the dispatch of main for platform-label, on the content of app.cue
modify_label(c, app_content) ==
    IF c.action = "add" THEN add_platform_label(app_content, c.key, c.value)
    ELSE remove_platform_label(app_content, c.key)

\* the dispatch of main for platform-annotation, on the contents of both files
modify_annotation(c, app_content, deployment_content) ==
    IF c.action = "add"
    THEN add_platform_annotation(app_content, deployment_content, c.key, c.value)
    ELSE remove_platform_annotation(app_content, deployment_content, c.key)

\* what the first part of main computes: the candidate of every target, or
\* the message it ends with
Candidate(app, deployment, file) ==
    [err |-> FALSE, msg |-> << >>,
     out |-> [t \in MainPaths |->
                 CASE t = "app.cue" -> app [] t = "deployment.cue" -> deployment [] OTHER -> file]]
\* a failure that main does not stop at
Unnoticed(m) == [err |-> FALSE, msg |-> m, out |-> [t \in MainPaths |-> << >>]]
Failed(m) == [err |-> TRUE, msg |-> m, out |-> [t \in MainPaths |-> << >>]]

\* main up to the first write: the existence checks, the reads, the edit
prepare(c, f) ==
    CASE c.family = "platform-annotation" ->
            IF ~f["app.cue"].exists THEN Failed(<<"Error", "File not found">>)
            ELSE IF c.action = "add" /\ ~f["deployment.cue"].exists
                 THEN Failed(<<"Error", "File not found">>)
            ELSE IF ~f["deployment.cue"].exists THEN Failed(<<"Traceback">>)
            ELSE With(modify_annotation(c, f["app.cue"].data, f["deployment.cue"].data), LAMBDA r :
                 IF r.err THEN Failed(<<"Error", "Could not find">>)
                 ELSE Candidate(r.app_cue, r.deployment_cue, << >>))
      [] c.family = "platform-label" ->
            IF ~f["app.cue"].exists THEN Failed(<<"Error", "File not found">>)
            ELSE With(modify_label(c, f["app.cue"].data), LAMBDA r :
                 IF r.err THEN Failed(<<"Error", "Could not find">>)
                 ELSE Candidate(r.doc, << >>, << >>))
      [] OTHER ->
            IF ~f["file"].exists THEN Failed(<<"Error", "File not found">>)
            ELSE With(modify(c, f["file"].data), LAMBDA r :
                 IF r.err THEN Failed(<<"Error", "Could not find">>)
                 ELSE Candidate(<< >>, << >>, r.doc))

\* a copy that writes nothing
copy_nothing(f, src, dst) == f
\* a copy that leaves a destination that exists as it is
copy_unless_exists(f, src, dst) == IF f[dst].exists THEN f ELSE [f EXCEPT ![dst] = f[src]]
\* shutil.copy(src, dst)
shutil_copy(f, src, dst) == [f EXCEPT ![dst] = f[src]]
\* a move that leaves its source where it was
move_keeping_source(f, src, dst) == [f EXCEPT ![dst] = f[src]]
\* a move that removes its source and leaves its destination as it was
move_dropping_source(f, src, dst) == [f EXCEPT ![src] = Absent]
\* shutil.move(src, dst)
shutil_move(f, src, dst) == [f EXCEPT ![dst] = f[src], ![src] = Absent]
\* Path(path).write_text(data), and tmp.write(data)
write_text(f, path, data) == [f EXCEPT ![path] = File(data)]
\* an unlink that leaves the file where it is
keep_file(f, path) == f
\* Path(path).unlink(missing_ok=True)
unlink(f, path) == [f EXCEPT ![path] = Absent]

\* a write or a copy that raises OSError leaves its destination as it was,
\* or created and cut short
CutShort(f, path) == {f, [f EXCEPT ![path] = File(<< >>)]}

\* the validator run: cue vet accepts, rejects, exceeds the 30 s timeout, is
\* not installed, or cannot be started
VetOutcomes == {"ok", "reject", "timeout", "missing", "oserror"}

\* run_cue_vet turns a timeout and a missing cue into (False, output); the
\* platform commands call subprocess.run themselves and catch neither
VetInvalid(c, outcome) ==
    IF c.family \in SingleFileFamilies THEN outcome \in {"reject", "timeout", "missing"}
    ELSE outcome = "reject"
VetOutput(outcome) ==
    CASE outcome = "timeout" -> <<"CUE validation timed out">>
      [] outcome = "missing" -> <<"CUE command not found">>
      [] OTHER -> <<"stderr">>

(***************************************************************************)
(* The state: the file system, the position of every invocation of main,   *)
(* and the documents of an editing session.                                *)
(***************************************************************************)

VARIABLES
    fs,       \* the file system: what every path holds
    fs0,      \* the file system when the invocations started
    pc,       \* where each invocation stands in main
    cmd,      \* its command line
    cand,     \* the candidate content it computed for each target
    idx,      \* the target its current step is at
    vet,      \* what its validator run came to
    exitc,    \* its exit status, -1 while it runs
    msg,      \* what it printed to stderr
    trace,    \* the file operations and validator runs of its transaction, with the errors
    faults,   \* the I/O errors it met
    session,  \* the command an editing session repeats
    doc,      \* the document of the session
    prev,     \* the documents before each edit of the session
    ops       \* the edits of the session and whether they raised

vars == <<fs, fs0, pc, cmd, cand, idx, vet, exitc, msg, trace, faults, session, doc, prev, ops>>
mainVars == <<fs, fs0, pc, cmd, cand, idx, vet, exitc, msg, trace, faults>>
editVars == <<session, doc, prev, ops>>

\* the I/O errors injected into one invocation, and the edits of one session
MaxFaults == 2
MaxEdits == 2

\* the platform files the file commands leave alone, and the reverse
AppCue0 == AppCue(LabelApp, << >>, << >>)
EnvCue0 == Block("dev", ConfigMapData(<< >>))

FileSystem(file, app, deployment, stale) ==
    [q \in Paths |->
        CASE q = "file" -> file
          [] q = "app.cue" -> app
          [] q = "deployment.cue" -> deployment
          [] q = "file.bak" -> stale
          [] OTHER -> Absent]

\* the file systems a command starts on: every document in args.file, every
\* pair of platform files, a backup left behind by an earlier run, a missing file
FileSystems ==
    {FileSystem(File(d), File(AppCue0), File(DeploymentPlain), st) :
        d \in EnvDocs \cup AppDocs, st \in {Absent, File(<<"stale">>)}}
    \cup {FileSystem(File(EnvCue0), File(a), File(d), Absent) :
        a \in PlatformDocs, d \in DeploymentDocs}
    \cup {[FileSystem(File(EnvCue0), File(AppCue0), File(DeploymentPlain), Absent)
                EXCEPT !["app.cue.bak"] = File(<<"stale">>)]}
    \cup {FileSystem(Absent, File(AppCue0), File(DeploymentPlain), Absent),
          FileSystem(File(EnvCue0), Absent, File(DeploymentPlain), Absent),
          FileSystem(File(EnvCue0), File(AppCue0), Absent, Absent)}

NoSession == Cmd("none", "none", "dev", << >>, << >>)

\* one invocation of main on one of the file systems
Init ==
    /\ fs \in FileSystems
    /\ fs0 = fs
    /\ pc = [p \in Invocations |-> IF p = 1 THEN "idle" ELSE "off"]
    /\ cmd = [p \in Invocations |-> NoCmd]
    /\ cand = [p \in Invocations |-> [t \in MainPaths |-> << >>]]
    /\ idx = [p \in Invocations |-> 1]
    /\ vet = [p \in Invocations |-> "none"]
    /\ exitc = [p \in Invocations |-> -1]
    /\ msg = [p \in Invocations |-> << >>]
    /\ trace = [p \in Invocations |-> << >>]
    /\ faults = [p \in Invocations |-> 0]
    /\ session = NoSession
    /\ doc = << >>
    /\ prev = << >>
    /\ ops = << >>

\* the step of invocation p goes on to position next
Goto(p, next) == pc' = [pc EXCEPT ![p] = next] /\ idx' = [idx EXCEPT ![p] = 1]
\* the step of invocation p is done with its target: the next target, or position next
Advance(p, next) ==
    IF idx[p] < Len(Targets(cmd[p]))
    THEN pc' = pc /\ idx' = [idx EXCEPT ![p] = idx[p] + 1]
    ELSE Goto(p, next)
\* invocation p performed event e
Log(p, e) == trace' = [trace EXCEPT ![p] = Append(trace[p], e)]
\* invocation p meets an I/O error
Fault(p) == faults[p] < MaxFaults /\ faults' = [faults EXCEPT ![p] = faults[p] + 1]
\* invocation p will exit with status code after printing m
Exit(p, code, m) == exitc' = [exitc EXCEPT ![p] = code] /\ msg' = [msg EXCEPT ![p] = m]
\* the single-file commands run inside try/finally; the platform commands do not
AfterTry(c) == IF c.family \in SingleFileFamilies THEN "finally" ELSE "done"
Target(p) == Targets(cmd[p])[idx[p]]

\* invocation p of command c goes on with what prepare came to: a failure
\* is printed and ends it with status 1
Begin(p, c, r) ==
    /\ cmd' = [cmd EXCEPT ![p] = c]
    /\ IF r.err
       THEN /\ Goto(p, "done")
            /\ Exit(p, 1, r.msg)
            /\ cand' = cand
       ELSE /\ Goto(p, IF c.family \in SingleFileFamilies THEN "tmp" ELSE "backup")
            /\ cand' = [cand EXCEPT ![p] = r.out]
            /\ UNCHANGED <<exitc, msg>>

\* main up to the candidate: parse, check, read, edit
Start(p) ==
    /\ pc[p] = "idle"
    /\ \E c \in Commands : Begin(p, c, prepare(c, fs))
    /\ UNCHANGED <<fs, fs0, vet, trace, faults>>
    /\ UNCHANGED editVars

\* tempfile.NamedTemporaryFile(delete=False) and tmp.write(new_content)
WriteTmp(p) ==
    /\ pc[p] = "tmp"
    /\ \/ /\ fs' = write_text(fs, Tmp(p), cand[p]["file"])
          /\ Goto(p, "backup")
          /\ UNCHANGED <<faults, exitc, msg>>
       \/ /\ Fault(p)
          /\ fs' \in CutShort(fs, Tmp(p))
          /\ Goto(p, "done")
          /\ Exit(p, 1, <<"Traceback">>)
    /\ UNCHANGED <<fs0, cmd, cand, vet, trace>>
    /\ UNCHANGED editVars

\* shutil.copy(path, path + '.bak') for the next target
Backup(p) ==
    /\ pc[p] = "backup"
    /\ \/ /\ fs[Target(p)].exists
          /\ fs' = shutil_copy(fs, Target(p), Bak(Target(p)))
          /\ Log(p, <<"backup", Target(p)>>)
          /\ Advance(p, "write")
          /\ UNCHANGED <<faults, exitc, msg>>
       \/ /\ Fault(p) \/ (~fs[Target(p)].exists /\ faults' = faults)
          /\ fs' \in IF fs[Target(p)].exists THEN CutShort(fs, Bak(Target(p))) ELSE {fs}
          /\ Goto(p, AfterTry(cmd[p]))
          /\ Exit(p, 1, <<"Traceback">>)
          /\ Log(p, <<"error", "backup">>)
    /\ UNCHANGED <<fs0, cmd, cand, vet>>
    /\ UNCHANGED editVars

\* path.write_text(candidate) for the next target
Write(p) ==
    /\ pc[p] = "write"
    /\ \/ /\ fs' = write_text(fs, Target(p), cand[p][Target(p)])
          /\ Log(p, <<"write", Target(p)>>)
          /\ Advance(p, "validate")
          /\ faults' = faults
       \/ /\ Fault(p)
          /\ fs' \in CutShort(fs, Target(p))
          /\ Goto(p, "handler")
          /\ Log(p, <<"error", "write">>)
    /\ UNCHANGED <<fs0, cmd, cand, vet, exitc, msg>>
    /\ UNCHANGED editVars

\* run_cue_vet, or subprocess.run(["cue", "vet", ...], timeout=30)
Validate(p) ==
    /\ pc[p] = "validate"
    /\ \E outcome \in VetOutcomes :
        /\ vet' = [vet EXCEPT ![p] = outcome]
        /\ Log(p, <<"validate", outcome>>)
        /\ Goto(p, IF outcome = "ok" THEN "commit"
                   ELSE IF VetInvalid(cmd[p], outcome) THEN "restore"
                   ELSE "handler")
    /\ UNCHANGED <<fs, fs0, cmd, cand, exitc, msg, faults>>
    /\ UNCHANGED editVars

\* the validator said no: shutil.move(backup, path) for the next target, then
\* the message and sys.exit(1)
Restore(p) ==
    /\ pc[p] = "restore"
    /\ \/ /\ fs[Bak(Target(p))].exists
          /\ fs' = shutil_move(fs, Bak(Target(p)), Target(p))
          /\ Log(p, <<"restore", Target(p)>>)
          /\ Advance(p, AfterTry(cmd[p]))
          /\ IF idx[p] < Len(Targets(cmd[p])) THEN UNCHANGED <<exitc, msg>>
             ELSE Exit(p, 1, <<"Error", "CUE validation failed">> \o VetOutput(vet[p]))
          /\ faults' = faults
       \/ /\ Fault(p) \/ (~fs[Bak(Target(p))].exists /\ faults' = faults)
          /\ Goto(p, "handler")
          /\ Log(p, <<"error", "restore">>)
          /\ UNCHANGED <<fs, exitc, msg>>
    /\ UNCHANGED <<fs0, cmd, cand, vet>>
    /\ UNCHANGED editVars

\* the validator said yes: Path(backup).unlink(missing_ok=True) for the next
\* target, then the success message
Commit(p) ==
    /\ pc[p] = "commit"
    /\ \/ /\ fs' = unlink(fs, Bak(Target(p)))
          /\ Log(p, <<"unlink", Target(p)>>)
          /\ Advance(p, AfterTry(cmd[p]))
          /\ IF idx[p] < Len(Targets(cmd[p])) THEN UNCHANGED <<exitc, msg>>
             ELSE Exit(p, 0, <<"Successfully modified">>)
          /\ faults' = faults
       \/ /\ Fault(p)
          /\ Goto(p, "handler")
          /\ Log(p, <<"error", "unlink">>)
          /\ UNCHANGED <<fs, exitc, msg>>
    /\ UNCHANGED <<fs0, cmd, cand, vet>>
    /\ UNCHANGED editVars

\* except Exception: move back each backup that exists, in order, then raise;
\* a move that raises leaves the handler at once
Handler(p) ==
    /\ pc[p] = "handler"
    /\ \/ /\ fs' = IF fs[Bak(Target(p))].exists
                   THEN shutil_move(fs, Bak(Target(p)), Target(p)) ELSE fs
          /\ trace' = [trace EXCEPT ![p] =
                          IF fs[Bak(Target(p))].exists
                          THEN Append(trace[p], <<"restore", Target(p)>>) ELSE trace[p]]
          /\ Advance(p, AfterTry(cmd[p]))
          /\ IF idx[p] < Len(Targets(cmd[p])) THEN UNCHANGED <<exitc, msg>>
             ELSE Exit(p, 1, <<"Traceback">>)
          /\ faults' = faults
       \/ /\ fs[Bak(Target(p))].exists
          /\ Fault(p)
          /\ Goto(p, AfterTry(cmd[p]))
          /\ Exit(p, 1, <<"Traceback">>)
          /\ Log(p, <<"error", "restore">>)
          /\ fs' = fs
    /\ UNCHANGED <<fs0, cmd, cand, vet>>
    /\ UNCHANGED editVars

\* finally: Path(tmp_path).unlink(missing_ok=True)
Finally(p) ==
    /\ pc[p] = "finally"
    /\ \/ /\ fs' = unlink(fs, Tmp(p))
          /\ UNCHANGED <<faults, exitc, msg>>
       \/ /\ Fault(p)
          /\ fs' = fs
          /\ Exit(p, 1, <<"Traceback">>)
    /\ Goto(p, "done")
    /\ UNCHANGED <<fs0, cmd, cand, vet, trace>>
    /\ UNCHANGED editVars

Running == {"tmp", "backup", "write", "validate", "restore", "commit", "handler", "finally"}
InsideTry == {"backup", "write", "validate", "restore", "commit", "handler"}

\* KeyboardInterrupt is no Exception: the handler is passed over, and of the
\* clean-up only the finally clause of the single-file commands runs
Interrupt(p) ==
    /\ pc[p] \in Running
    /\ Goto(p, IF pc[p] \in InsideTry THEN AfterTry(cmd[p]) ELSE "done")
    /\ Exit(p, 130, <<"KeyboardInterrupt">>)
    /\ UNCHANGED <<fs, fs0, cmd, cand, vet, trace, faults>>
    /\ UNCHANGED editVars

\* the process is killed: nothing more of main runs
Kill(p) ==
    /\ pc[p] \in Running
    /\ Goto(p, "done")
    /\ exitc' = [exitc EXCEPT ![p] = 137]
    /\ UNCHANGED <<fs, fs0, cmd, cand, vet, msg, trace, faults>>
    /\ UNCHANGED editVars

Next ==
    \E p \in Invocations :
        \/ Start(p)
        \/ WriteTmp(p)
        \/ Backup(p)
        \/ Write(p)
        \/ Validate(p)
        \/ Restore(p)
        \/ Commit(p)
        \/ Handler(p)
        \/ Finally(p)
        \/ Interrupt(p)
        \/ Kill(p)

Spec == Init /\ [][Next]_vars

(***************************************************************************)
(* An editing session: the add (or set) and the remove of one command      *)
(* family, with the same arguments, applied to a document again and again. *)
(***************************************************************************)

\* the edit main dispatches command c to, on the content of its file
edit(c, content) ==
    IF c.family = "platform-label" THEN modify_label(c, content) ELSE modify(c, content)

\* a services/apps file that holds the block of a second app, web, after the
\* block of app, both with the entry "k" in their data map
AppBlock(name, body) ==
    <<name, ":", SP, "core", ".", "#", "App", SP, "&", SP, LB>>
    \o <<NL, TAB, "appName", ":", SP, QT, name, QT>>
    \o <<NL, TAB, "appConfig", ":", SP, LB>> \o body \o <<NL, TAB, RB, NL, RB, NL>>
TwoAppDocs ==
    {AppBlock(App, b) \o AppBlock("web", b) : b \in {ConfigMapData(Line(4, Entry(<<"k">>, <<"v1">>)))}}

\* the documents a family is run on
SessionDocs(family) ==
    CASE family \in EnvFamilies -> EnvDocs
      [] family = "app-configmap" -> AppDocs \cup TwoAppDocs
      [] family = "platform-label" -> PlatformDocs

InitEdit ==
    /\ session \in {c \in Commands : c.action = "add" /\ c.family # "platform-annotation"}
    /\ doc \in SessionDocs(session.family)
    /\ prev = << >>
    /\ ops = << >>
    /\ fs = FileSystem(File(EnvCue0), File(AppCue0), File(DeploymentPlain), Absent)
    /\ fs0 = fs
    /\ pc = [p \in Invocations |-> "off"]
    /\ cmd = [p \in Invocations |-> NoCmd]
    /\ cand = [p \in Invocations |-> [t \in MainPaths |-> << >>]]
    /\ idx = [p \in Invocations |-> 1]
    /\ vet = [p \in Invocations |-> "none"]
    /\ exitc = [p \in Invocations |-> -1]
    /\ msg = [p \in Invocations |-> << >>]
    /\ trace = [p \in Invocations |-> << >>]
    /\ faults = [p \in Invocations |-> 0]

\* the session applies command c: a raised ValueError leaves the document alone
Result(c, r) ==
    /\ prev' = Append(prev, doc)
    /\ ops' = Append(ops, [op |-> c.action, err |-> r.err])
    /\ doc' = IF r.err THEN doc ELSE r.doc

Apply(c) ==
    /\ Len(ops) < MaxEdits
    /\ Result(c, edit(c, doc))
    /\ UNCHANGED session
    /\ UNCHANGED mainVars

Add == Apply(session)
Remove == Apply([session EXCEPT !.action = "remove"])

NextEdit == Add \/ Remove

SpecEdit == InitEdit /\ [][NextEdit]_vars

(***************************************************************************)
(* Properties of the edits (under SpecEdit).                               *)
(***************************************************************************)

\* the last edit of the session and the document it was applied to
Last == ops[Len(ops)]
Before == prev[Len(prev)]
Edited == ops # << >>

\* where the header of the session's block is matched in d, its opening
\* brace, and the brace the scanner pairs with it
HeaderAt(d, env) == Search(d, LAMBDA t, i : app_pattern(env, App, t, i))
BraceAt(d, env) == HeaderAt(d, env) + Index(From(d, HeaderAt(d, env)), LB)
BlockEnd(d, env) == find_block_end(d, BraceAt(d, env))
Located(d, env) == HeaderAt(d, env) >= 0 /\ BlockEnd(d, env) >= 0

\* after differs from before only between the offsets start and end of before
OutsideUnchanged(before, after, start, end) ==
    /\ Len(after) >= start + (Len(before) - (end + 1))
    /\ Slice(after, 0, start) = Slice(before, 0, start)
    /\ From(after, Len(after) - (Len(before) - (end + 1))) = From(before, end + 1)

\* C1: an add or set addressed to an environment's block that returns a
\* document changes nothing outside the span of that block, from the start of
\* its header to its matching closing brace: sibling blocks stay as they were.
C1_UpsertScoped ==
    (/\ Edited
     /\ session.family \in EnvFamilies
     /\ Last = [op |-> "add", err |-> FALSE]
     /\ Located(Before, session.env))
    => OutsideUnchanged(Before, doc, HeaderAt(Before, session.env), BlockEnd(Before, session.env))

\* C5: an add or set applied a second time with the same arguments returns
\* the document the first application returned.
C5_UpsertIdempotent ==
    (/\ Len(ops) >= 2
     /\ ops[Len(ops) - 1] = [op |-> "add", err |-> FALSE]
     /\ Last = [op |-> "add", err |-> FALSE])
    => doc = Before

\* the text an edit of command c searches in d: the block, or all of d
Searched(d, c) ==
    IF c.family \in EnvFamilies /\ Located(d, c.env)
    THEN Slice(d, HeaderAt(d, c.env), BlockEnd(d, c.env) + 1)
    ELSE d

\* C6: when the key does not occur in the block, the add of the key followed
\* by its remove returns the document the add started from.
C6_AddRemoveRoundTrip ==
    (/\ Len(ops) >= 2
     /\ ops[Len(ops) - 1] = [op |-> "add", err |-> FALSE]
     /\ Last = [op |-> "remove", err |-> FALSE]
     /\ ~Contains(Searched(prev[Len(prev) - 1], session), session.key))
    => doc = prev[Len(prev) - 1]

\* the nesting depth at the end of content as the scanner of find_block_end
\* counts it (strings and escapes passed over), or -1 once a brace closes
\* what was never opened
RECURSIVE BraceDepth(_, _, _, _, _)
BraceDepth(content, i, depth, in_string, escape_next) ==
    IF i >= Len(content) THEN depth
    ELSE IF escape_next THEN BraceDepth(content, i + 1, depth, in_string, FALSE)
    ELSE With(NextActive(content, i, in_string), LAMBDA j :
         IF j >= Len(content) THEN depth
         ELSE IF At(content, j) = BS THEN BraceDepth(content, j + 1, depth, in_string, TRUE)
         ELSE IF At(content, j) = QT THEN BraceDepth(content, j + 1, depth, ~in_string, FALSE)
         ELSE IF At(content, j) = LB THEN BraceDepth(content, j + 1, depth + 1, in_string, FALSE)
         ELSE IF depth = 0 THEN -1
         ELSE BraceDepth(content, j + 1, depth - 1, in_string, FALSE))
Balanced(d) == BraceDepth(d, 0, 0, FALSE, FALSE) = 0

\* C7: an edit of a document whose braces are balanced outside strings
\* returns a document whose braces are balanced.
C7_BalancePreserved ==
    (Edited /\ ~Last.err /\ Balanced(Before)) => Balanced(doc)

\* the offsets of d at which the header of env's block matches
HeaderMatches(d, env) == {i \in 0..Len(d) : app_pattern(env, App, d, i) >= 0}

\* C8: when the header matches at more than one place of the document, the
\* command raises an error and the document stays as it was.
C8_AmbiguityIsError ==
    (/\ Edited
     /\ session.family \in EnvFamilies
     /\ Cardinality(HeaderMatches(Before, session.env)) > 1)
    => (Last.err /\ doc = Before)

\* the opening brace of the block command c locates in d, or -1
OpeningBrace(d, c) ==
    IF c.family \in EnvFamilies
    THEN (IF HeaderAt(d, c.env) >= 0 THEN BraceAt(d, c.env) ELSE -1)
    ELSE IF c.family = "platform-label"
    THEN (IF Search(d, default_labels_pattern) >= 0
          THEN default_labels_pattern(d, Search(d, default_labels_pattern)) - 1 ELSE -1)
    ELSE -1

\* C9: when the opening brace of the located block has no matching closing
\* brace, the command raises an error: it returns no document.
C9_UnmatchedBraceIsFatal ==
    (/\ Edited
     /\ OpeningBrace(Before, session) >= 0
     /\ find_block_end(Before, OpeningBrace(Before, session)) < 0)
    => Last.err

(***************************************************************************)
(* Properties of the transaction of main (under Spec).                     *)
(***************************************************************************)

Done(p) == pc[p] = "done"
Interrupted(p) == exitc[p] \in {130, 137}
TargetSet(c) == {Targets(c)[i] : i \in 1..Len(Targets(c))}
\* every target of invocation p holds what it held when p started
Restored(p) == \A t \in TargetSet(cmd[p]) : fs[t] = fs0[t]
\* every target of invocation p holds the candidate
Candidates(p) == \A t \in TargetSet(cmd[p]) : fs[t] = File(cand[p][t])
NoBackup(p) == \A t \in TargetSet(cmd[p]) : ~fs[Bak(t)].exists
Events(p) == {trace[p][i] : i \in 1..Len(trace[p])}
IOErrors(p) == {e \in Events(p) : e[1] = "error"}

\* C2: when the validator exits non-zero (and no file operation fails, and
\* the run is not interrupted), the command ends with every target holding
\* the bytes it held before, no backup file left, and the validation failure
\* reported with exit status 1.
C2_RollbackOnReject ==
    \A p \in Invocations :
        (Done(p) /\ vet[p] = "reject" /\ faults[p] = 0 /\ ~Interrupted(p))
        => /\ Restored(p)
           /\ NoBackup(p)
           /\ exitc[p] = 1
           /\ SubSeq(msg[p], 1, 2) = <<"Error", "CUE validation failed">>

\* a run the validator rejected has ended, and its candidate differed from
\* the original
C2_Witness ==
    /\ Done(1) /\ vet[1] = "reject" /\ faults[1] = 0 /\ exitc[1] = 1
    /\ cmd[1].family = "platform-annotation"
    /\ \A t \in TargetSet(cmd[1]) : cand[1][t] # fs0[t].data

\* of two files that the command was to change, one holds its candidate
\* and the other what it held before
Torn(p) ==
    \E t, u \in TargetSet(cmd[p]) :
        /\ cand[p][t] # fs0[t].data /\ fs[t] = File(cand[p][t])
        /\ cand[p][u] # fs0[u].data /\ fs[u] = fs0[u]

\* C3: a platform-annotation command runs the validator only when both
\* files hold their candidates, and it never ends (even when one of its
\* file operations raises an I/O error) with exactly one of the two files
\* changed.
C3_TwoFileAtomicity ==
    \A p \in Invocations :
        cmd[p].family = "platform-annotation" =>
            /\ pc[p] = "validate" => Candidates(p)
            /\ (Done(p) /\ ~Interrupted(p) /\ faults[p] <= 1) => ~Torn(p)

\* C4: once the backups are taken, a run that ends otherwise than by the
\* validator's acceptance (the validator rejected, a write raised an I/O
\* error, the validator call raised, or the run was interrupted or killed
\* between write and commit; one of these at a time) leaves every target
\* holding the bytes it held before.
C4_RollbackOnEveryFailure ==
    \A p \in Invocations :
        (/\ Done(p)
         /\ \A t \in TargetSet(cmd[p]) : <<"backup", t>> \in Events(p)
         /\ vet[p] # "ok"
         /\ IOErrors(p) \subseteq {<<"error", "write">>}
         /\ Interrupted(p) => IOErrors(p) = {})
        => Restored(p)

\* the add or set of command c finds no header, or no appConfig block, in d
LookupFails(c, d) ==
    IF c.family \in EnvFamilies
    THEN \/ HeaderAt(d, c.env) < 0
         \/ Search(Slice(d, app_pattern(c.env, App, d, HeaderAt(d, c.env)), BlockEnd(d, c.env)),
                   appconfig_pattern) < 0
    ELSE Search(d, appconfig_pattern) < 0

\* C10: an add or set that cannot locate the header or the appConfig block
\* ends with an error and exit status 1, and has written nothing, created
\* no backup or temporary file, and not run the validator.  (A run that went
\* on instead would show in the states before its first file operation.)
C10_NotFoundCommitsNothing ==
    \A p \in Invocations :
        (/\ pc[p] # "idle"
         /\ trace[p] = << >>
         /\ cmd[p].family \in SingleFileFamilies
         /\ cmd[p].action = "add"
         /\ fs0["file"].exists
         /\ LookupFails(cmd[p], fs0["file"].data))
        => /\ Done(p)
           /\ exitc[p] = 1
           /\ msg[p] = <<"Error", "Could not find">>
           /\ trace[p] = << >>
           /\ fs = fs0

\* an add has ended on a document that has the header but no appConfig block
C10_Witness ==
    /\ Done(1)
    /\ cmd[1].family = "env-configmap" /\ cmd[1].action = "add"
    /\ HeaderAt(fs0["file"].data, cmd[1].env) >= 0
    /\ LookupFails(cmd[1], fs0["file"].data)
    /\ exitc[1] = 1

(***************************************************************************)
(* The rendering of values by env-field set (under SpecField): a session   *)
(* of env-field commands whose raw value ranges over numbers in several    *)
(* notations, booleans in several cases, and plain strings.                *)
(***************************************************************************)

\* the raw values of the value argument
RawValues ==
    {<<"2">>, <<"-", "2">>, <<"1", ".", "5">>, <<"1", ".">>, <<".", "5">>, <<"1", ".", "5e3">>,
     <<"1e5">>, <<"true">>, <<"True">>, <<"FALSE">>, <<"us", "-", "east">>, <<"v1">>,
     <<"1", ".", "2", ".", "3">>}

InitField ==
    /\ session \in {Cmd("env-field", "add", e, k, v) : e \in Envs, k \in Keys, v \in RawValues}
    /\ doc \in EnvDocs
    /\ prev = << >>
    /\ ops = << >>
    /\ fs = FileSystem(File(EnvCue0), File(AppCue0), File(DeploymentPlain), Absent)
    /\ fs0 = fs
    /\ pc = [p \in Invocations |-> "off"]
    /\ cmd = [p \in Invocations |-> NoCmd]
    /\ cand = [p \in Invocations |-> [t \in MainPaths |-> << >>]]
    /\ idx = [p \in Invocations |-> 1]
    /\ vet = [p \in Invocations |-> "none"]
    /\ exitc = [p \in Invocations |-> -1]
    /\ msg = [p \in Invocations |-> << >>]
    /\ trace = [p \in Invocations |-> << >>]
    /\ faults = [p \in Invocations |-> 0]

SpecField == InitField /\ [][NextEdit]_vars

\* the raw value is the text of a number: an integer, or a float with a
\* decimal point, with an exponent, or with both
IsNumber(value) ==
    \/ IntParses(value)
    \/ FloatParses(value)
    \/ Len(value) = 1 /\ value[1] \in ExponentWords
    \/ Len(value) = 2 /\ value[1] \in {"-", "+"} /\ value[2] \in ExponentWords

\* the rendering the quoting policy asks for
PolicyRendering(value) ==
    IF IsNumber(value) THEN value
    ELSE IF Lower(value) \in {<<"true">>, <<"false">>} THEN Lower(value)
    ELSE <<QT>> \o value \o <<QT>>

\* C11: a set that returns a document has written the field with the raw value
\* unquoted when it is a number in any notation, as a lowercase literal when
\* it is true or false in any case, and inside double quotes otherwise.
C11_QuotingPolicy ==
    (/\ Edited
     /\ session.family = "env-field"
     /\ Last = [op |-> "add", err |-> FALSE])
    => /\ formatted_value(session.value) = PolicyRendering(session.value)
       /\ Contains(doc, session.key \o <<":", SP>> \o PolicyRendering(session.value))

(***************************************************************************)
(* Further properties of the edits (under SpecEdit).                       *)
(***************************************************************************)

\* C12: a remove of a key that does not occur in the text the command
\* searches (the addressed block, or the document when the command addresses
\* none) raises no error and returns the document it was given.
C12_RemoveAbsentIsNoOp ==
    (/\ Edited
     /\ Last.op = "remove"
     /\ ~Contains(Searched(Before, session), session.key))
    => (~Last.err /\ doc = Before)

(***************************************************************************)
(* Further properties of the transaction of main (under Spec).             *)
(***************************************************************************)

\* the run of invocation p met no I/O error and was not interrupted or killed
Undisturbed(p) == faults[p] = 0 /\ ~Interrupted(p)
\* what main prints first when the validator rejects
ValidationFailed == <<"Error", "CUE validation failed">>
\* what invocation p printed to stderr starts with m
Reports(p, m) == Len(msg[p]) >= Len(m) /\ SubSeq(msg[p], 1, Len(m)) = m

\* C13: when the validator cannot be started (cue is not installed, or the
\* call raises another OSError), the command ends with every target holding
\* the bytes it held before, and what it reports is not the report of a
\* validation failure.
C13_MissingValidatorIsDistinct ==
    \A p \in Invocations :
        (Done(p) /\ vet[p] \in {"missing", "oserror"} /\ Undisturbed(p))
        => /\ Restored(p)
           /\ ~Reports(p, ValidationFailed)

\* C14: when the validator call exceeds its timeout, the command ends as it
\* does when the validator rejects: every target holds the bytes it held
\* before, no backup is left, a validation failure is reported, and the exit
\* status is 1.
C14_TimeoutIsValidationFailure ==
    \A p \in Invocations :
        (Done(p) /\ vet[p] = "timeout" /\ Undisturbed(p))
        => /\ Restored(p)
           /\ NoBackup(p)
           /\ exitc[p] = 1
           /\ Reports(p, ValidationFailed)

\* C15: a command that runs to its end exits with status 0 or 1; it exits
\* with 0 exactly when the validator accepted its candidate (and no file
\* operation failed), and then every target holds its candidate and no
\* backup is left; every lookup, validation or I/O failure ends with 1.
C15_CommitAndExitCode ==
    \A p \in Invocations :
        (Done(p) /\ ~Interrupted(p))
        => /\ exitc[p] \in {0, 1}
           /\ exitc[p] = 0 <=> (vet[p] = "ok" /\ faults[p] = 0)
           /\ exitc[p] = 0 => (Candidates(p) /\ NoBackup(p) /\ Reports(p, <<"Successfully modified">>))

\* a platform-annotation command that changed both files has ended with status 0
C15_Witness ==
    /\ Done(1) /\ exitc[1] = 0
    /\ cmd[1].family = "platform-annotation"
    /\ \A t \in TargetSet(cmd[1]) : cand[1][t] # fs0[t].data /\ fs[t] = File(cand[1][t])

\* event e is among the first i - 1 events of invocation p
Earlier(p, i, e) == \E j \in 1..(i - 1) : trace[p][j] = e

RECURSIVE StringRest(_, _)
StringRest(d, i) ==
    IF i >= Len(d) THEN -1
    ELSE IF At(d, i) = BS THEN StringRest(d, i + 2)
    ELSE IF At(d, i) = QT THEN i + 1
    ELSE StringRest(d, i + 1)

\* the end of the value token that starts at offset v: a string literal, a
\* struct, or a bare token
TokenEnd(d, v) ==
    IF v >= Len(d) THEN v
    ELSE IF At(d, v) = QT THEN StringRest(d, v + 1)
    ELSE IF At(d, v) = LB THEN find_block_end(d, v) + 1
    ELSE Min({j \in v..Len(d) : j = Len(d) \/ At(d, j) \in {NL, SP, TAB, ",", RB}})

\* the header of the container that holds the entries of command c
ContainerHeader(c, s, i) ==
    CASE c.family = "env-configmap" -> data_pattern(s, i)
      [] c.family = "app-configmap" -> app_data_pattern(s, i)
      [] c.family = "env-field" -> appconfig_pattern(s, i)
      [] c.family = "env-label" -> labels_pattern(s, i)
      [] c.family = "platform-label" -> default_labels_pattern(s, i)

\* the text command c addresses in d, from the opening brace of its block on,
\* and the offset of that text in d
Addressed(d, c) == IF c.family \in EnvFamilies THEN Slice(d, BraceAt(d, c.env), BlockEnd(d, c.env) + 1) ELSE d
AddressedAt(d, c) == IF c.family \in EnvFamilies THEN BraceAt(d, c.env) ELSE 0

\* the opening brace of the container of command c in d, or -1
ContainerOpen(d, c) ==
    IF c.family \in EnvFamilies /\ ~Located(d, c.env) THEN -1
    ELSE With(Search(Addressed(d, c), LAMBDA s, i : ContainerHeader(c, s, i)), LAMBDA m :
         IF m < 0 THEN -1 ELSE AddressedAt(d, c) + ContainerHeader(c, Addressed(d, c), m) - 1)
ContainerClose(d, c) == IF ContainerOpen(d, c) < 0 THEN -1 ELSE find_block_end(d, ContainerOpen(d, c))

\* an entry of key starts at offset i of d, the key quoted or bare: the
\* offset after its colon, or -1
EntryAt(d, key, i) ==
    IF i >= 1 /\ IsSpace(At(d, i - 1))
    THEN Max({MatchLit(d, i, <<QT>> \o key \o <<QT, ":">>), MatchLit(d, i, key \o <<":">>)})
    ELSE -1

\* the offsets at which the members of the container of command c that are
\* entries of its key start
KeyEntries(d, c) ==
    IF ContainerClose(d, c) < 0 THEN {}
    ELSE {i \in (ContainerOpen(d, c) + 1)..(ContainerClose(d, c) - 1) :
            /\ EntryAt(d, c.key, i) >= 0
            /\ BraceDepth(Slice(d, ContainerOpen(d, c), i), 0, 0, FALSE, FALSE) = 1}

\* where the value of the entry at offset i starts and ends
ValueStart(d, key, i) == SkipSpace(d, EntryAt(d, key, i))
ValueEnd(d, key, i) == TokenEnd(d, ValueStart(d, key, i))

\* the value token an add or set of command c writes
NewValue(c) == IF c.family = "env-field" THEN formatted_value(c.value) ELSE <<QT>> \o c.value \o <<QT>>

\* the entry at offset i has its key in the form the add or set of command c
\* looks for: quoted for a config-map entry, bare for a field, either for a label
OwnForm(d, c, i) ==
    CASE c.family \in {"env-configmap", "app-configmap"} -> At(d, i) = QT
      [] c.family = "env-field" -> At(d, i) # QT
      [] OTHER -> TRUE

\* C17: when the key occurs once in the document, as a member of the
\* container of the addressed block and in the form the command looks for, an
\* add or set returns the document it was given with the value token of that
\* entry replaced by the new value: the key, its quoting, its place and the
\* white space around it stay, and so does every other byte.
C17_UpdateInPlace ==
    (/\ Edited
     /\ Last = [op |-> "add", err |-> FALSE]
     /\ Cardinality({i \in 0..Len(Before) : EntryAt(Before, session.key, i) >= 0}) = 1
     /\ \E i \in KeyEntries(Before, session) : OwnForm(Before, session, i))
    => \E i \in KeyEntries(Before, session) :
          doc = Slice(Before, 0, ValueStart(Before, session.key, i))
                \o NewValue(session)
                \o From(Before, ValueEnd(Before, session.key, i))

\* the number of entries of key in document d, the key quoted or bare
EntryCount(d, key) == Cardinality({i \in 0..Len(d) : EntryAt(d, key, i) >= 0})

\* C18: an add or set whose key is already a member of the container of the
\* addressed block, written as a quoted string or as a bare identifier, finds
\* it: the document it returns holds no more entries of the key than the
\* document it was given.
C18_DetectsBothKeyForms ==
    (/\ Edited
     /\ Last = [op |-> "add", err |-> FALSE]
     /\ KeyEntries(Before, session) # {})
    => EntryCount(doc, session.key) <= EntryCount(Before, session.key)

\* the number of tabs that indent the line of d holding offset i
IndentOf(d, i) ==
    With(Max({j \in 0..i : j = 0 \/ At(d, j - 1) = NL}), LAMBDA ls :
         Min({j \in ls..Len(d) : j = Len(d) \/ At(d, j) # TAB}) - ls)

\* the entry an add or set of command c may write for its key, the key quoted or bare
NewEntries(c) ==
    {<<QT>> \o c.key \o <<QT, ":", SP>> \o NewValue(c), c.key \o <<":", SP>> \o NewValue(c)}

\* document d begins with the text p
BeginsWith(d, p) == Len(d) >= Len(p) /\ SubSeq(d, 1, Len(p)) = p

\* C19: when the document holds no entry of the key and the container of the
\* addressed block exists, an add or set returns a document in which the new
\* entry is the first member of the container: the text up to and including
\* the container's opening brace is followed immediately by a new line that
\* holds the entry, indented one tab deeper than the line of the container.
C19_InsertsAfterOpeningBrace ==
    (/\ Edited
     /\ Last = [op |-> "add", err |-> FALSE]
     /\ ContainerClose(Before, session) >= 0
     /\ EntryCount(Before, session.key) = 0)
    => \E e \in NewEntries(session) :
          BeginsWith(doc, Slice(Before, 0, ContainerOpen(Before, session) + 1)
                          \o <<NL>> \o Tabs(IndentOf(Before, ContainerOpen(Before, session)) + 1) \o e)

\* text s without its white space
Dense(s) == SelectSeq(s, LAMBDA x : ~IsSpace(x))

\* the struct name: { inner }, without white space
Struct(name, inner) == <<name, ":", LB>> \o inner \o <<RB>>

\* the scaffold a config-map add of command c has to create in document d:
\* the container levels the addressed text lacks, around the new entry
Scaffold(d, c) ==
    With(Struct("data", Entry(c.key, c.value)), LAMBDA data :
         IF Contains(Addressed(d, c), <<"configMap", ":">>) THEN Dense(data)
         ELSE IF Contains(Addressed(d, c), <<"appConfig", ":">>) THEN Dense(Struct("configMap", data))
         ELSE Dense(Struct("appConfig", Struct("configMap", data))))

\* document e is document d with one text inserted whose dense form is t
InsertedOnce(d, e, t) ==
    /\ Len(e) > Len(d)
    /\ \E i \in 0..Len(d) :
          /\ Slice(e, 0, i) = Slice(d, 0, i)
          /\ From(e, i + Len(e) - Len(d)) = From(d, i)
          /\ Dense(Slice(e, i, i + Len(e) - Len(d))) = t

\* C20: a config-map add on a block that is there and closed but holds no
\* data map succeeds, and returns the document it was given with one text
\* inserted: the container levels the block lacks (data; configMap and data;
\* appConfig, configMap and data) nested around the new entry as only member.
C20_ScaffoldSynthesis ==
    (/\ Edited
     /\ Last.op = "add"
     /\ session.family \in {"env-configmap", "app-configmap"}
     /\ session.family = "env-configmap" => Located(Before, session.env)
     /\ ContainerOpen(Before, session) < 0)
    => /\ ~Last.err
       /\ InsertedOnce(Before, doc, Scaffold(Before, session))

(***************************************************************************)
(* find_block_end as a pure function: every text over a small alphabet,    *)
(* scanned from each of its opening braces                                 *)
(***************************************************************************)

MaxScan == 5

\* a brace of each kind, the quote, the backslash and an ordinary character
ScanAlphabet == {LB, RB, QT, BS, "a"}
ScanDocs == UNION {[1..n -> ScanAlphabet] : n \in 0..MaxScan}

InitScan ==
    /\ session = NoCmd
    /\ doc \in ScanDocs
    /\ prev = << >>
    /\ ops = << >>
    /\ fs = FileSystem(File(EnvCue0), File(AppCue0), File(DeploymentPlain), Absent)
    /\ fs0 = fs
    /\ pc = [p \in Invocations |-> "off"]
    /\ cmd = [p \in Invocations |-> NoCmd]
    /\ cand = [p \in Invocations |-> [t \in MainPaths |-> << >>]]
    /\ idx = [p \in Invocations |-> 1]
    /\ vet = [p \in Invocations |-> "none"]
    /\ exitc = [p \in Invocations |-> -1]
    /\ msg = [p \in Invocations |-> << >>]
    /\ trace = [p \in Invocations |-> << >>]
    /\ faults = [p \in Invocations |-> 0]

\* find_block_end(content, start_pos) called at an opening brace of the text
Scan ==
    /\ ops = << >>
    /\ \E start_pos \in 0..(Len(doc) - 1) :
          /\ At(doc, start_pos) = LB
          /\ ops' = <<[op |-> "find_block_end", start_pos |-> start_pos,
                       result |-> find_block_end(doc, start_pos)]>>
    /\ UNCHANGED <<session, doc, prev>>
    /\ UNCHANGED mainVars

NextScan == Scan

SpecScan == InitScan /\ [][NextScan]_vars

\* how the character at offset j of d is read when d is read from its start:
\* "code" outside a string, "string" inside one, and "literal" for the
\* character that follows a backslash, outside a string or inside
RECURSIVE ReadAs(_, _)
ReadAs(d, j) ==
    IF j = 0 THEN [mode |-> "code", in |-> FALSE]
    ELSE With(ReadAs(d, j - 1), LAMBDA b :
         IF b.mode = "literal" THEN [mode |-> IF b.in THEN "string" ELSE "code", in |-> b.in]
         ELSE IF At(d, j - 1) = BS THEN [mode |-> "literal", in |-> b.in]
         ELSE IF At(d, j - 1) = QT THEN [mode |-> IF b.in THEN "code" ELSE "string", in |-> ~b.in]
         ELSE b)

\* the braces of kind c between offsets p and r that are read as code
CodeBraces(d, p, r, c) == {k \in p..r : At(d, k) = c /\ ReadAs(d, k).mode = "code"}

\* the running depth after the character at offset r, counted from offset p
RunningDepth(d, p, r) == Cardinality(CodeBraces(d, p, r, LB)) - Cardinality(CodeBraces(d, p, r, RB))

\* the least offset from p on at which the running depth is back at zero, or -1
MatchingBrace(d, p) ==
    With({r \in p..(Len(d) - 1) : RunningDepth(d, p, r) = 0}, LAMBDA R :
    IF R = {} THEN -1 ELSE Min(R))

\* C21: called at an opening brace that stands outside every string literal,
\* find_block_end returns the least offset at which the running depth, counted
\* over the braces outside strings and not behind a backslash, is back at
\* zero, and the character there is a closing brace; it returns -1 exactly
\* when there is no such offset.
C21_BraceMatching ==
    (/\ ops # << >>
     /\ Last.op = "find_block_end"
     /\ ReadAs(doc, Last.start_pos).mode = "code")
    => /\ Last.result = MatchingBrace(doc, Last.start_pos)
       /\ Last.result >= 0 => At(doc, Last.result) = RB

\* a closing brace inside a string is passed over on the way to the match
C21_Witness ==
    /\ ops # << >>
    /\ Last = [op |-> "find_block_end", start_pos |-> 0, result |-> 4]
    /\ doc = <<LB, QT, RB, QT, RB>>

\* the span of the block a remove of command c addresses in d, as a pair of
\* offsets (first character, closing brace): the block of the environment,
\* the block of the app in a services/apps file, the defaultLabels struct
AppHeader == <<App, ":", SP, "core", ".", "#", "App", SP, "&", SP, LB>>
AppHeaderAt(d) ==
    With({i \in 0..Len(d) : (i = 0 \/ At(d, i - 1) = NL) /\ MatchLit(d, i, AppHeader) >= 0}, LAMBDA I :
    IF I = {} THEN -1 ELSE Min(I))
SpanStart(d, c) ==
    CASE c.family \in EnvFamilies -> HeaderAt(d, c.env)
      [] c.family = "app-configmap" -> AppHeaderAt(d)
      [] OTHER -> ContainerOpen(d, c)
SpanEnd(d, c) ==
    IF SpanStart(d, c) < 0 THEN -1
    ELSE CASE c.family \in EnvFamilies -> BlockEnd(d, c.env)
           [] c.family = "app-configmap" -> find_block_end(d, AppHeaderAt(d) + Len(AppHeader) - 1)
           [] OTHER -> ContainerClose(d, c)

\* the end of the line that starts with the newline at offset n
LineEnd(d, n) == Min({j \in (n + 1)..Len(d) : j = Len(d) \/ At(d, j) = NL})

\* the lines inside the span, each named by the offset of the newline before
\* it, that hold an entry of the key of c, quoted or bare
KeyLines(d, c) ==
    {n \in SpanStart(d, c)..SpanEnd(d, c) :
        /\ At(d, n) = NL
        /\ LineEnd(d, n) <= SpanEnd(d, c)
        /\ EntryAt(d, c.key, SkipSpace(d, n)) >= 0}

\* d without the lines of S, each deleted with the newline before it
RECURSIVE DeleteLines(_, _)
DeleteLines(d, S) ==
    IF S = {} THEN d
    ELSE DeleteLines(Slice(d, 0, Max(S)) \o From(d, LineEnd(d, Max(S))), S \ {Max(S)})

\* C22: a remove on a document whose addressed block is there and closed
\* returns that document with nothing but whole lines deleted, each a line
\* inside the addressed block that holds the key: every byte outside the
\* block, the entries of the key in other blocks, and the other lines of the
\* block with their indentation stay as they were.
C22_RemoveScoped ==
    (/\ Edited
     /\ Last = [op |-> "remove", err |-> FALSE]
     /\ SpanEnd(Before, session) >= 0)
    => \E S \in SUBSET KeyLines(Before, session) : doc = DeleteLines(Before, S)

(***************************************************************************)
(* Two invocations of main on the same args.file, their steps interleaved. *)
(***************************************************************************)

\* both invocations set the same key of the same block, to different values
RaceCommands == {Cmd("env-configmap", "add", "dev", <<"k">>, v) : v \in {<<"v1">>, <<"v2">>}}

InitRace ==
    /\ fs = FileSystem(File(EnvCue0), File(AppCue0), File(DeploymentPlain), Absent)
    /\ fs0 = fs
    /\ pc = [p \in Invocations |-> "idle"]
    /\ cmd = [p \in Invocations |-> NoCmd]
    /\ cand = [p \in Invocations |-> [t \in MainPaths |-> << >>]]
    /\ idx = [p \in Invocations |-> 1]
    /\ vet = [p \in Invocations |-> "none"]
    /\ exitc = [p \in Invocations |-> -1]
    /\ msg = [p \in Invocations |-> << >>]
    /\ trace = [p \in Invocations |-> << >>]
    /\ faults = [p \in Invocations |-> 0]
    /\ session = NoSession
    /\ doc = << >>
    /\ prev = << >>
    /\ ops = << >>

\* main up to the candidate, for one of the racing command lines
StartRace(p) ==
    /\ pc[p] = "idle"
    /\ \E c \in RaceCommands : Begin(p, c, prepare(c, fs))
    /\ UNCHANGED <<fs, fs0, vet, trace, faults>>
    /\ UNCHANGED editVars

NextRace ==
    \E p \in Invocations :
        \/ StartRace(p)
        \/ WriteTmp(p)
        \/ Backup(p)
        \/ Write(p)
        \/ Validate(p)
        \/ Restore(p)
        \/ Commit(p)
        \/ Handler(p)
        \/ Finally(p)
        \/ Interrupt(p)
        \/ Kill(p)

SpecRace == InitRace /\ [][NextRace]_vars

\* every invocation is over, or was never started
Terminal == \A p \in Invocations : pc[p] \in {"done", "idle"}

\* args.file holds neither the bytes it had before the invocations nor the
\* candidate of an invocation whose validator run accepted
Lost ==
    /\ fs["file"] # fs0["file"]
    /\ \A p \in Invocations : vet[p] = "ok" => fs["file"] # File(cand[p]["file"])

\* the restore step of invocation p found no backup file
BackupGone(p) == <<"error", "restore">> \in Events(p)

\* C23: main takes no lock, and without I/O errors, interrupts and kills the
\* interleaving of two invocations is the only way to the bad outcomes: when
\* args.file ends up holding neither its original bytes nor an accepted
\* candidate, both invocations have written it, and when a restore step finds
\* its backup gone, the other invocation has moved or unlinked that backup.
C23_RaceOfTwoInvocations ==
    (\A p \in Invocations : Undisturbed(p))
    => /\ (Terminal /\ Lost) => \A p \in Invocations : <<"write", "file">> \in Events(p)
       /\ \A p \in Invocations : BackupGone(p) =>
             \E q \in Invocations \ {p} :
                Events(q) \cap {<<"restore", "file">>, <<"unlink", "file">>} # {}

\* both invocations are over, each after a rejection; args.file holds a
\* rejected candidate and not its original bytes, no backup is left, and one
\* restore step found its backup gone
C23_Witness ==
    /\ \A p \in Invocations : Done(p) /\ Undisturbed(p) /\ vet[p] = "reject"
    /\ fs["file"] # fs0["file"]
    /\ \E p \in Invocations : fs["file"] = File(cand[p]["file"])
    /\ ~fs["file.bak"].exists
    /\ \E p \in Invocations : BackupGone(p)

\* C24: a file that stands at the backup path of a target before the command
\* starts does not survive a command that gets as far as the validator run
\* and ends undisturbed: its backup copy overwrote the file, the commit or
\* the restore took the backup away, no path holds the earlier content, and
\* the target holds the candidate after an acceptance and its own original
\* bytes otherwise.
C24_StaleBackupIsLost ==
    \A p \in Invocations : \A t \in TargetSet(cmd[p]) :
        (/\ Done(p)
         /\ vet[p] # "none"
         /\ fs0[Bak(t)].exists
         /\ Undisturbed(p))
        => /\ ~fs[Bak(t)].exists
           /\ \A q \in Paths : fs[q] # fs0[Bak(t)]
           /\ fs[t] = IF vet[p] = "ok" THEN File(cand[p][t]) ELSE fs0[t]

\* a rejected single-file command that started with a file at args.file.bak
C24_Witness ==
    /\ Done(1)
    /\ Undisturbed(1)
    /\ vet[1] = "reject"
    /\ fs0["file.bak"] = File(<<"stale">>)
    /\ cand[1]["file"] # fs0["file"].data
    /\ fs["file"] = fs0["file"]
    /\ ~fs["file.bak"].exists

=============================================================================
